---- MODULE Spec2Model ----
(***************************************************************************)
(* A model of slideflow's MIL dataset library (mil/data.py), TFRecord      *)
(* reader (tfrecord/reader.py), feature generator and DatasetFeatures      *)
(* (model/features.py) and the Studio MIL widget (studio/widgets/mil.py).  *)
(* Each component has its own variables, initial predicate, next-state     *)
(* relation and specification; a component's specification leaves the      *)
(* other components' variables at their idle values.                       *)
(***************************************************************************)
EXTENDS Integers, Sequences, FiniteSets, TLC

VARIABLES
    \* ---- mil/data.py ----
    bags_n,             \* len(bags) handed to build_dataset
    targets,            \* the targets array: a sequence of scalars or of rows
    survival_discrete,  \* build_dataset(survival_discrete=...)
    bag_size,           \* build_dataset(bag_size=...)
    ds_state,           \* "unbuilt" | "built" | "raised"
    ds_len,             \* MapDataset._len of the built dataset
    loaded,             \* has BagDataset._load been called on any bag
    item,               \* the result of the last BagDataset.__getitem__
    \* ---- tfrecord/reader.py ----
    rec_lens,           \* payload length of each record written to the file
    rfile,              \* the bytes of the record file at data_path
    mode,               \* "plain": index=None | "gzip": index=None, compressed
                        \* | "shard": index and shard | "random"
    clip,               \* clip argument (0: None)
    shard_count,        \* shard[1]
    buf0,               \* len(datum_bytes) handed in by the caller
    run,                \* which call this is: shard index 0..count-1, then shard=None
    rd_pc,              \* "idle" | "reading" | "done" | "raised" | "end"
    pos,                \* file.tell()
    end_off,            \* end_offset of the running read_records
    segs,               \* read_records calls still to be made by this iterator
    datum_bytes,        \* the read buffer
    yielded,            \* what this iterator has yielded so far
    runs,               \* the results of the finished calls, in order
    \* ---- model/features.py: _FeatureGenerator.generate ----
    fg_flags,           \* layers / include_preds / uq and include_uncertainty / loc
    threading_mode,     \* did batch_proc_thread start
    main_pc,            \* "start" | "loop" | "put" | "join" | "returned" | "raised"
    pending,            \* the item the main thread is putting (0: the sentinel)
    produced,           \* batches the dataloader has produced so far
    q,                  \* queue.Queue(maxsize=100): batch numbers, 0 for the sentinel
    worker_pc,          \* "none" | "get" | "exited" | "died"
    processed,          \* batch numbers passed to process_batch, in call order
    acc,                \* the four accumulators of generate
    \* ---- studio/widgets/mil.py: MILWidget ----
    mil_params,         \* self.mil_params: "none" or the model path it was read from
    extractor_params,   \* self.extractor_params, likewise
    mil_config,         \* self.mil_config, likewise
    w_predictions,      \* self.predictions: 0 (None) or the thread that wrote it
    w_attention,        \* self.attention, likewise
    mil_path,           \* self._mil_path
    viz_model_path,     \* self.viz._model_path
    renderer,           \* the render manager's renderer: "none" or a MIL model path
    generating,         \* self._generating
    triggered,          \* self._triggered
    w_thread,           \* self._thread: 0 (None) or a thread
    w_toast,            \* self._toast: 0 (None) or the toast made with that thread
    threads,            \* each prediction thread: "unstarted" | "started" | "running" | "finished"
    toasts_done,        \* the sticky toasts on which done() was called
    ui_pc,              \* the UI thread: "idle" | "close_join" | "load_join" | "load_read"
    load_path,          \* the path argument of the running load
    last,               \* the operation that made the last step
    \* ---- model/features.py: DatasetFeatures ----
    dfs,                \* the DatasetFeatures objects
    tile_loc,           \* the location stored with each tile in the record files
    \* ---- single calls of functions that keep no state ----
    call_args,          \* the arguments of the call
    call_result         \* [done |-> FALSE] until the call has returned or raised

bagVars == <<bags_n, targets, survival_discrete, bag_size, ds_state, ds_len,
             loaded, item>>

readerVars == <<rec_lens, rfile, mode, clip, shard_count, buf0, run, rd_pc, pos,
                end_off, segs, datum_bytes, yielded, runs>>

genVars == <<fg_flags, threading_mode, main_pc, pending, produced, q, worker_pc,
             processed, acc>>

widgetVars == <<mil_params, extractor_params, mil_config, w_predictions, w_attention,
                mil_path, viz_model_path, renderer, generating, triggered, w_thread,
                w_toast, threads, toasts_done, ui_pc, load_path, last>>

dfVars == <<dfs, tile_loc>>

callVars == <<call_args, call_result>>

vars == <<bagVars, readerVars, genVars, widgetVars, dfVars, callVars>>

\* what each component's actions leave alone
notBagVars == <<readerVars, genVars, widgetVars, dfVars, callVars>>
notReaderVars == <<bagVars, genVars, widgetVars, dfVars, callVars>>
notGenVars == <<bagVars, readerVars, widgetVars, dfVars, callVars>>
notWidgetVars == <<bagVars, readerVars, genVars, dfVars, callVars>>
notDFVars == <<bagVars, readerVars, genVars, widgetVars, callVars>>
notCallVars == <<bagVars, readerVars, genVars, widgetVars, dfVars>>

\* ------------------------------------------------------------------------
\* Generic helpers
\* ------------------------------------------------------------------------

Min(a, b) == IF a <= b THEN a ELSE b

Range(s) == {s[i] : i \in 1..Len(s)}

\* Sequences over S of length 0..n
SeqUpTo(S, n) == UNION {[1..k -> S] : k \in 0..n}

\* Number of positions of sequence s holding x
Count(s, x) == Cardinality({i \in 1..Len(s) : s[i] = x})

\* ------------------------------------------------------------------------
\* Bounds
\* ------------------------------------------------------------------------

MaxBags == 2        \* bags / targets handed to build_dataset
MaxRows == 3        \* instances (rows) in one bag
MaxBagSize == 3     \* bag_size

\* Instance feature vectors (F = 2); the zero vector is a legal instance.
Rows == {<<0, 0>>, <<1, 0>>, <<0, 1>>}
ZeroRow == <<0, 0>>

\* 2-D bags of 0..MaxRows instances
BagSet == SeqUpTo(Rows, MaxRows)

\* targets: shape [N] (ndim 1, one value per row) or shape [N, 2] (ndim 2: time
\* bin, event indicator)
TargetSet ==
    {[ndim |-> 1, rows |-> r] : r \in SeqUpTo({<<1>>}, MaxBags)}
    \cup {[ndim |-> 2, rows |-> r] : r \in SeqUpTo({<<1, 0>>, <<2, 1>>}, MaxBags)}

\* ------------------------------------------------------------------------
\* mil/data.py
\* ------------------------------------------------------------------------

\* torch.randperm(n): any permutation of 0..n-1, as a sequence of length n
RandPerms(n) == {p \in [1..n -> 0..(n - 1)] : \A i, j \in 1..n : p[i] = p[j] => i = j}

\* torch.zeros(k, F)
Zeros(k) == [i \in 1..k |-> ZeroRow]

\* Mutant: the padding rows are dropped (no torch.cat with zeros).
to_fixed_size_bag_nopad(bag, size, perm) ==
    LET k == Min(size, Len(bag))
        bag_idxs == SubSeq(perm, 1, k)
    IN  [bag_idxs |-> bag_idxs,
         bag      |-> [i \in 1..k |-> bag[bag_idxs[i] + 1]],
         length   |-> Min(size, Len(bag))]

\* _to_fixed_size_bag for a 2-D bag; perm is the value randperm returned
to_fixed_size_bag(bag, size, perm) ==
    LET bag_idxs    == SubSeq(perm, 1, Min(size, Len(perm)))
        bag_samples == [i \in 1..Len(bag_idxs) |-> bag[bag_idxs[i] + 1]]
        zero_padded == bag_samples \o Zeros(size - Len(bag_samples))
    IN  [bag_idxs |-> bag_idxs,
         bag      |-> zero_padded,
         length   |-> Min(size, Len(bag))]

\* targets[:, 0].astype(int): an IndexError unless targets is 2-D
FirstColumn(t) == [ndim |-> 1, rows |-> [i \in 1..Len(t.rows) |-> <<t.rows[i][1]>>]]

\* MapDataset.__init__: "raise" (AssertionError) or the dataset's length
MapDatasetInit(strict, lens) ==
    IF strict
    THEN IF \A i \in 1..Len(lens) : lens[i] = lens[1] THEN lens[1] ELSE -1
    ELSE IF Len(lens) > 0
         THEN CHOOSE m \in Range(lens) : \A x \in Range(lens) : m <= x
         ELSE 0

\* Mutant: the datasets are mapped non-strictly and the length assertion is
\* gone, so a mismatch truncates to the shorter input.
build_dataset_nonstrict(nb, tg, surv) ==
    IF surv /\ tg.ndim # 2
    THEN [raised |-> TRUE, len |-> 0]
    ELSE [raised |-> FALSE, len |-> MapDatasetInit(FALSE, <<nb, Len(tg.rows)>>)]

\* build_dataset: the survival_discrete reduction, the assertion, then
\* MapDataset(_zip, BagDataset(bags), EncodedDataset(encoder, targets)).
\* BagDataset is built with preload=False, so nothing is loaded here.
build_dataset(nb, tg, surv) ==
    IF surv /\ tg.ndim # 2
    THEN [raised |-> TRUE, len |-> 0]             \* IndexError on targets[:, 0]
    ELSE LET tg2  == IF surv THEN FirstColumn(tg) ELSE tg
             encl == MapDatasetInit(TRUE, <<Len(tg2.rows)>>)   \* EncodedDataset
             mapl == MapDatasetInit(TRUE, <<nb, encl>>)
         IN  IF nb # Len(tg2.rows) \/ mapl < 0
             THEN [raised |-> TRUE, len |-> 0]     \* AssertionError
             ELSE [raised |-> FALSE, len |-> mapl]

NoItem == [index |-> -1, feats |-> <<>>, bag_idxs |-> <<>>, bag |-> <<>>,
           length |-> 0]

BagStart ==
    /\ bags_n \in 0..MaxBags
    /\ targets \in TargetSet
    /\ survival_discrete \in BOOLEAN
    /\ survival_discrete => targets.ndim = 2     \* documented shape [N, 2]
    /\ bag_size \in 1..MaxBagSize
    /\ ds_state = "unbuilt"
    /\ ds_len = 0
    /\ loaded = FALSE
    /\ item = NoItem

BuildDataset ==
    /\ ds_state = "unbuilt"
    /\ LET r == build_dataset(bags_n, targets, survival_discrete)
       IN  /\ ds_state' = IF r.raised THEN "raised" ELSE "built"
           /\ ds_len' = r.len
    /\ UNCHANGED <<bags_n, targets, survival_discrete, bag_size, loaded, item>>
    /\ UNCHANGED notBagVars

\* MapDataset.__getitem__(index) -> BagDataset.__getitem__(index): _load,
\* then _to_fixed_size_bag (bag_size is set). The loaded bag is whatever the
\* file or array at that index holds.
GetItem ==
    /\ ds_state = "built"
    /\ item = NoItem
    /\ \E index \in 0..(ds_len - 1), feats \in BagSet :
         \E perm \in RandPerms(Len(feats)) :
            LET r == to_fixed_size_bag(feats, bag_size, perm)
            IN  item' = [index |-> index, feats |-> feats,
                         bag_idxs |-> r.bag_idxs, bag |-> r.bag,
                         length |-> r.length]
    /\ loaded' = TRUE
    /\ UNCHANGED <<bags_n, targets, survival_discrete, bag_size, ds_state, ds_len>>
    /\ UNCHANGED notBagVars

\* The caller drops the item it was given.
DropItem ==
    /\ item # NoItem
    /\ item' = NoItem
    /\ UNCHANGED <<bags_n, targets, survival_discrete, bag_size, ds_state,
                   ds_len, loaded>>
    /\ UNCHANGED notBagVars

BagIdle ==
    /\ bags_n = 0
    /\ targets = [ndim |-> 1, rows |-> <<>>]
    /\ survival_discrete = FALSE
    /\ bag_size = 1
    /\ ds_state = "unbuilt"
    /\ ds_len = 0
    /\ loaded = FALSE
    /\ item = NoItem

NextBag == BuildDataset \/ GetItem \/ DropItem

\* ------------------------------------------------------------------------
\* tfrecord/reader.py
\* ------------------------------------------------------------------------

MaxRecords == 3     \* records in the file
MaxPayload == 2     \* payload bytes in one record
MaxShards == 3      \* shard count
MaxBuf == 1         \* bytes in the buffer the caller hands in

LenBytes == 8       \* bytearray(8): the record's length field
CrcBytes == 4       \* bytearray(4): each of the two CRC fields

\* n >> (8 * k)
RECURSIVE ShiftBytes(_, _)
ShiftBytes(n, k) == IF k = 0 THEN n ELSE ShiftBytes(n \div 256, k - 1)

\* struct.pack("<Q", n)
PackLE(n) == [i \in 1..LenBytes |-> ShiftBytes(n, i - 1) % 256]

\* struct.unpack("<Q", b)
RECURSIVE UnpackLE(_)
UnpackLE(b) ==
    IF Len(b) = 0 THEN 0 ELSE b[1] + 256 * UnpackLE(Tail(b))

\* the CRC bytes are present in the file and never interpreted
Crc == [i \in 1..CrcBytes |-> 200]

\* payload of the k-th record: n bytes that name the record
Payload(k, n) == [j \in 1..n |-> 16 * k + j]

\* one record as written to the file
Record(k, n) == PackLE(n) \o Crc \o Payload(k, n) \o Crc

RECURSIVE WriteRecords(_, _)
WriteRecords(lens, k) ==
    IF k > Len(lens) THEN <<>>
    ELSE Record(k, lens[k]) \o WriteRecords(lens, k + 1)

\* byte offset of the k-th record (k from 1) in the file
RECURSIVE RecordOffset(_, _)
RecordOffset(lens, k) ==
    IF k <= 1 THEN 0
    ELSE RecordOffset(lens, k - 1) + LenBytes + CrcBytes + lens[k - 1] + CrcBytes

\* the index file's first column: the byte offset of every record
IndexOf(lens) == [k \in 1..Len(lens) |-> RecordOffset(lens, k)]

\* os.path.getsize(data_path) of an uncompressed file
GetSize(f) == Len(f)

\* os.path.getsize(data_path) of a gzip file with content f: what the
\* compressor made of it. A gzip member has a header of 10 bytes and a
\* trailer of 8; the deflate stream between them takes from 2 bytes (an empty
\* final block) to the content stored as is behind a block header of 5.
GzipGetSizes(f) == (10 + 2 + 8)..(10 + 5 + Len(f) + 8)

\* os.path.getsize(data_path); file.tell(), seek and readinto of a
\* gzip.open file work on the uncompressed content
GetSizes(f, compression_type) ==
    IF compression_type = "gzip" THEN GzipGetSizes(f) ELSE {GetSize(f)}

\* file.readinto(view) at position p with len(view) = n: the bytes it stores
ReadInto(f, p, n) == SubSeq(f, p + 1, Min(p + n, Len(f)))

\* bytearray.zfill(width): left-padded with b"0", a leading sign kept in front
ZFill(b, width) ==
    IF width <= Len(b) THEN b
    ELSE LET pad == [i \in 1..(width - Len(b)) |-> 48]
         IN  IF Len(b) > 0 /\ b[1] \in {43, 45}
             THEN <<b[1]>> \o pad \o Tail(b)
             ELSE pad \o b

\* Mutant: the buffer is never grown.
GrowBufferNever(buf, length) == buf

\* the buffer after `if length > len(datum_bytes): datum_bytes.zfill(int(length * 1.5))`
GrowBuffer(buf, length) ==
    IF length > Len(buf) THEN ZFill(buf, (3 * length) \div 2) ELSE buf

\* np.array_split(index, count): the first len % count chunks hold one more
ChunkSize(n, count, k) == (n \div count) + (IF k < n % count THEN 1 ELSE 0)

RECURSIVE ChunkStart(_, _, _)
ChunkStart(n, count, k) ==
    IF k = 0 THEN 0 ELSE ChunkStart(n, count, k - 1) + ChunkSize(n, count, k - 1)

\* all_shard_indices[k] as a sequence of byte offsets
ShardIndices(index, count, k) ==
    SubSeq(index, ChunkStart(Len(index), count, k) + 1,
           ChunkStart(Len(index), count, k) + ChunkSize(Len(index), count, k))

NoOffset == -1      \* None as start_offset / end_offset / clip_offset

\* Mutant: every shard but the last ends at its own first record's successor,
\* i.e. the end byte is taken from the shard itself instead of the next shard.
ShardRangeOwnEnd(index, clip_offset, shard_idx, count) ==
    IF Len(ShardIndices(index, count, shard_idx)) = 0
    THEN [raised |-> TRUE, start |-> NoOffset, end |-> NoOffset]
    ELSE [raised |-> FALSE,
          start  |-> ShardIndices(index, count, shard_idx)[1],
          end    |-> IF shard_idx < count - 1
                     THEN ShardIndices(index, count, shard_idx)[
                              Len(ShardIndices(index, count, shard_idx))]
                     ELSE clip_offset]

\* start_byte and end_byte of shard (shard_idx, count); an empty chunk makes
\* all_shard_indices[..][0] an IndexError
ShardRange(index, clip_offset, shard_idx, count) ==
    IF Len(ShardIndices(index, count, shard_idx)) = 0
    THEN [raised |-> TRUE, start |-> NoOffset, end |-> NoOffset]
    ELSE IF shard_idx < count - 1
         THEN IF Len(ShardIndices(index, count, shard_idx + 1)) = 0
              THEN [raised |-> TRUE, start |-> NoOffset, end |-> NoOffset]
              ELSE [raised |-> FALSE,
                    start  |-> ShardIndices(index, count, shard_idx)[1],
                    end    |-> ShardIndices(index, count, shard_idx + 1)[1]]
         ELSE [raised |-> FALSE,
               start  |-> ShardIndices(index, count, shard_idx)[1],
               end    |-> clip_offset]

\* Mutant: the read never stops at the clip boundary.
ClipOffsetNone(index, c) == NoOffset

\* `if clip:` ... clip_offset and the clipped index
ClipOffset(index, c) ==
    IF c # 0 THEN (IF c = Len(index) THEN NoOffset ELSE index[c + 1]) ELSE NoOffset
ClipIndex(index, c) == IF c # 0 THEN SubSeq(index, 1, c) ELSE index

ReaderStart ==
    /\ rec_lens \in SeqUpTo(0..MaxPayload, MaxRecords)
    /\ rfile = WriteRecords(rec_lens, 1)
    /\ mode \in {"plain", "gzip", "shard", "random"}
    /\ mode \in {"shard", "random"} => Len(rec_lens) >= 1
    /\ clip \in IF mode \in {"plain", "gzip"} THEN {0} ELSE 0..Len(rec_lens)
    /\ shard_count \in IF mode = "shard" THEN 1..MaxShards ELSE {1}
    /\ buf0 \in 0..MaxBuf
    /\ run = 0
    /\ rd_pc = "idle"
    /\ pos = 0
    /\ end_off = 0
    /\ segs = <<>>
    /\ datum_bytes = <<>>
    /\ yielded = <<>>
    /\ runs = <<>>

ReaderIdle ==
    /\ rec_lens = <<>>
    /\ rfile = <<>>
    /\ mode = "plain"
    /\ clip = 0
    /\ shard_count = 1
    /\ buf0 = 0
    /\ run = 0
    /\ rd_pc = "end"
    /\ pos = 0
    /\ end_off = 0
    /\ segs = <<>>
    /\ datum_bytes = <<>>
    /\ yielded = <<>>
    /\ runs = <<>>

readerArgs == <<rec_lens, rfile, mode, clip, shard_count, buf0>>

\* read_records(start_offset, end_offset) up to its while loop
BeginSegment(seg) ==
    /\ pos' = IF seg.start # NoOffset THEN seg.start ELSE pos
    /\ end_off' \in IF seg.end = NoOffset THEN GetSizes(rfile, mode) ELSE {seg.end}

\* tfrecord_iterator up to the first read_records call. In "shard" mode call
\* number run < shard_count reads shard (run, shard_count) and the last call
\* reads with shard=None.
StartIterator ==
    /\ rd_pc = "idle"
    /\ datum_bytes' = [i \in 1..buf0 |-> 0]
    /\ yielded' = <<>>
    /\ IF mode \in {"plain", "gzip"}
       THEN /\ BeginSegment([start |-> NoOffset, end |-> NoOffset])
            /\ segs' = <<>>
            /\ rd_pc' = "reading"
       ELSE LET index       == ClipIndex(IndexOf(rec_lens), clip)
                clip_offset == ClipOffset(IndexOf(rec_lens), clip)
            IN  IF mode = "random"
                THEN \E offset \in Range(index) :
                        /\ BeginSegment([start |-> offset, end |-> clip_offset])
                        /\ segs' = <<[start |-> 0, end |-> offset]>>
                        /\ rd_pc' = "reading"
                ELSE IF run >= shard_count
                THEN /\ BeginSegment([start |-> 0, end |-> clip_offset])
                     /\ segs' = <<>>
                     /\ rd_pc' = "reading"
                ELSE LET r == ShardRange(index, clip_offset, run, shard_count)
                     IN  IF r.raised
                         THEN /\ rd_pc' = "raised"
                              /\ UNCHANGED <<pos, end_off, segs>>
                         ELSE /\ BeginSegment([start |-> r.start, end |-> r.end])
                              /\ segs' = <<>>
                              /\ rd_pc' = "reading"
    /\ UNCHANGED <<readerArgs, run, runs>>
    /\ UNCHANGED notReaderVars

\* one turn of the while loop of read_records, up to its yield
ReadRecord ==
    /\ rd_pc = "reading"
    /\ pos < end_off
    /\ LET length_bytes == ReadInto(rfile, pos, LenBytes)
           p1           == pos + Len(length_bytes)
           crc1         == ReadInto(rfile, p1, CrcBytes)
           p2           == p1 + Len(crc1)
           length       == UnpackLE(length_bytes)
           grown        == GrowBuffer(datum_bytes, length)
           view_len     == Min(length, Len(grown))
           data         == ReadInto(rfile, p2, view_len)
           p3           == p2 + Len(data)
           crc2         == ReadInto(rfile, p3, CrcBytes)
           p4           == p3 + Len(crc2)
       IN  IF Len(length_bytes) # LenBytes
           THEN /\ rd_pc' = "raised" /\ pos' = p1
                /\ UNCHANGED <<datum_bytes, yielded>>
           ELSE IF Len(crc1) # CrcBytes
           THEN /\ rd_pc' = "raised" /\ pos' = p2
                /\ UNCHANGED <<datum_bytes, yielded>>
           ELSE IF Len(data) # length
           THEN /\ rd_pc' = "raised" /\ pos' = p3
                /\ datum_bytes' = data \o SubSeq(grown, Len(data) + 1, Len(grown))
                /\ UNCHANGED yielded
           ELSE IF Len(crc2) # CrcBytes
           THEN /\ rd_pc' = "raised" /\ pos' = p4
                /\ datum_bytes' = data \o SubSeq(grown, Len(data) + 1, Len(grown))
                /\ UNCHANGED yielded
           ELSE /\ pos' = p4
                /\ datum_bytes' = data \o SubSeq(grown, Len(data) + 1, Len(grown))
                /\ yielded' = Append(yielded, [off |-> pos, data |-> data])
                /\ UNCHANGED rd_pc
    /\ UNCHANGED <<readerArgs, run, end_off, segs, runs>>
    /\ UNCHANGED notReaderVars

\* the while loop of read_records ends: the next read_records call begins,
\* or the file is closed
EndSegment ==
    /\ rd_pc = "reading"
    /\ pos >= end_off
    /\ IF Len(segs) > 0
       THEN /\ BeginSegment(Head(segs))
            /\ segs' = Tail(segs)
            /\ UNCHANGED rd_pc
       ELSE /\ rd_pc' = "done"
            /\ UNCHANGED <<pos, end_off, segs>>
    /\ UNCHANGED <<readerArgs, run, datum_bytes, yielded, runs>>
    /\ UNCHANGED notReaderVars

\* The caller keeps what the iterator gave (or that it raised) and, in
\* "shard" mode, calls tfrecord_iterator again for the next shard and at last
\* without a shard.
NextCall ==
    /\ rd_pc \in {"done", "raised"}
    /\ runs' = Append(runs, [raised |-> rd_pc = "raised", yielded |-> yielded])
    /\ IF mode = "shard" /\ run < shard_count
       THEN /\ run' = run + 1
            /\ rd_pc' = "idle"
       ELSE /\ rd_pc' = "end"
            /\ UNCHANGED run
    /\ pos' = 0
    /\ UNCHANGED <<readerArgs, end_off, segs, datum_bytes, yielded>>
    /\ UNCHANGED notReaderVars

NextReader == StartIterator \/ ReadRecord \/ EndSegment \/ NextCall

\* ------------------------------------------------------------------------
\* model/features.py: _FeatureGenerator.generate
\* ------------------------------------------------------------------------

QueueMaxSize == 100     \* queue.Queue(maxsize=100)
MaxBatches == 102       \* batches the dataloader produces at most
BatchTiles == 2         \* tiles in one batch

Slides == {"s1", "s2", "s3"}

\* A tile is named by its number in the order the dataloader produces tiles.
\* the slide a tile belongs to (batch_slides[d])
SlideOfTile(t) == IF t % 3 = 0 THEN "s2" ELSE "s1"

\* the tiles of batch b (b from 1), in batch order
TilesOfBatch(b) == [d \in 1..BatchTiles |-> BatchTiles * (b - 1) + d]

\* defaultdict(list): d[k].append(v)
DictAppend(d, k, v) ==
    IF k \in DOMAIN d THEN [d EXCEPT ![k] = Append(@, v)] ELSE d @@ (k :> <<v>>)

EmptyDict == [k \in {} |-> <<>>]

EmptyAcc == [activations |-> EmptyDict, predictions |-> EmptyDict,
             uncertainty |-> EmptyDict, locations |-> EmptyDict]

\* the flags process_batch tests: self.layers; self.include_preds and preds is
\* not None; self.uq and self.include_uncertainty; loc is not None
FlagSet == [layers : BOOLEAN, preds : BOOLEAN, uq : BOOLEAN, loc : BOOLEAN]

\* process_batch, one turn of its loop `for d, slide in enumerate(slides)`.
\* Row d of features, preds, unc and loc is the row of tile tiles[d].
RECURSIVE ProcessRows(_, _, _, _)
ProcessRows(a, tiles, d, flags) ==
    IF d > Len(tiles) THEN a
    ELSE LET slide == SlideOfTile(tiles[d])
             a1 == IF flags.layers
                   THEN [a EXCEPT !.activations = DictAppend(@, slide, tiles[d])]
                   ELSE a
             a2 == IF flags.preds
                   THEN [a1 EXCEPT !.predictions = DictAppend(@, slide, tiles[d])]
                   ELSE a1
             a3 == IF flags.uq
                   THEN [a2 EXCEPT !.uncertainty = DictAppend(@, slide, tiles[d])]
                   ELSE a2
             a4 == IF flags.loc
                   THEN [a3 EXCEPT !.locations = DictAppend(@, slide, tiles[d])]
                   ELSE a3
         IN  ProcessRows(a4, tiles, d + 1, flags)

\* process_batch(model_out, batch_slides, batch_loc) on the accumulators a
process_batch(a, tiles, flags) == ProcessRows(a, tiles, 1, flags)

\* Mutant: put never blocks (an unbounded queue).
CanPutAlways(queue) == TRUE

\* q.put proceeds only while the queue holds fewer than maxsize items
CanPut(queue) == Len(queue) < QueueMaxSize

GenStart ==
    /\ fg_flags \in {f \in FlagSet : f.layers /\ (f.uq => f.preds)}
    /\ threading_mode = FALSE
    /\ main_pc = "start"
    /\ pending = 0
    /\ produced = 0
    /\ q = <<>>
    /\ worker_pc = "none"
    /\ processed = <<>>
    /\ acc = EmptyAcc

GenIdle ==
    /\ fg_flags = [layers |-> TRUE, preds |-> FALSE, uq |-> FALSE, loc |-> FALSE]
    /\ threading_mode = FALSE
    /\ main_pc = "idle"
    /\ pending = 0
    /\ produced = 0
    /\ q = <<>>
    /\ worker_pc = "none"
    /\ processed = <<>>
    /\ acc = EmptyAcc

\* try: q = queue.Queue(maxsize=100); batch_proc_thread.start() succeeds
StartThread ==
    /\ main_pc = "start"
    /\ threading_mode' = TRUE
    /\ worker_pc' = "get"
    /\ main_pc' = "loop"
    /\ UNCHANGED <<fg_flags, pending, produced, q, processed, acc>>
    /\ UNCHANGED notGenVars

\* except Exception: threading_mode = False
ThreadingFailed ==
    /\ main_pc = "start"
    /\ threading_mode' = FALSE
    /\ main_pc' = "loop"
    /\ UNCHANGED <<fg_flags, pending, produced, q, worker_pc, processed, acc>>
    /\ UNCHANGED notGenVars

\* threaded mode: the dataloader yields a batch, the model output is
\* computed, and the main thread calls q.put
ProduceBatch ==
    /\ main_pc = "loop"
    /\ threading_mode
    /\ produced < MaxBatches
    /\ produced' = produced + 1
    /\ pending' = produced + 1
    /\ main_pc' = "put"
    /\ UNCHANGED <<fg_flags, threading_mode, q, worker_pc, processed, acc>>
    /\ UNCHANGED notGenVars

\* in-line mode: the batch is processed by the main thread; an exception of
\* process_batch leaves generate
ProduceInline ==
    /\ main_pc = "loop"
    /\ ~threading_mode
    /\ produced < MaxBatches
    /\ produced' = produced + 1
    /\ processed' = Append(processed, produced + 1)
    /\ \E ok \in BOOLEAN :
         IF ok
         THEN /\ acc' = process_batch(acc, TilesOfBatch(produced + 1), fg_flags)
              /\ UNCHANGED main_pc
         ELSE /\ main_pc' = "raised"
              /\ UNCHANGED acc
    /\ UNCHANGED <<fg_flags, threading_mode, pending, q, worker_pc>>
    /\ UNCHANGED notGenVars

\* q.put returns: the item is in the queue
Put ==
    /\ main_pc = "put"
    /\ CanPut(q)
    /\ q' = Append(q, pending)
    /\ main_pc' = IF pending = 0 THEN "join" ELSE "loop"
    /\ UNCHANGED <<fg_flags, threading_mode, pending, produced, worker_pc,
                   processed, acc>>
    /\ UNCHANGED notGenVars

\* the dataloader is exhausted: q.put((None, None, None)) in threaded mode,
\* otherwise generate returns
EndOfData ==
    /\ main_pc = "loop"
    /\ IF threading_mode
       THEN /\ pending' = 0
            /\ main_pc' = "put"
       ELSE /\ main_pc' = "returned"
            /\ UNCHANGED pending
    /\ UNCHANGED <<fg_flags, threading_mode, produced, q, worker_pc, processed, acc>>
    /\ UNCHANGED notGenVars

\* batch_proc_thread.join() returns once the thread has ended, however it ended
Join ==
    /\ main_pc = "join"
    /\ worker_pc \in {"exited", "died"}
    /\ main_pc' = "returned"
    /\ UNCHANGED <<fg_flags, threading_mode, pending, produced, q, worker_pc,
                   processed, acc>>
    /\ UNCHANGED notGenVars

\* batch_worker_thread: q.get() returns a batch and process_batch runs; an
\* exception of process_batch ends the thread
WorkerProcess ==
    /\ worker_pc = "get"
    /\ Len(q) > 0
    /\ Head(q) # 0
    /\ q' = Tail(q)
    /\ processed' = Append(processed, Head(q))
    /\ \E ok \in BOOLEAN :
         IF ok
         THEN /\ acc' = process_batch(acc, TilesOfBatch(Head(q)), fg_flags)
              /\ UNCHANGED worker_pc
         ELSE /\ worker_pc' = "died"
              /\ UNCHANGED acc
    /\ UNCHANGED <<fg_flags, threading_mode, main_pc, pending, produced>>
    /\ UNCHANGED notGenVars

\* batch_worker_thread: q.get() returns the sentinel and the thread returns
WorkerExit ==
    /\ worker_pc = "get"
    /\ Len(q) > 0
    /\ Head(q) = 0
    /\ q' = Tail(q)
    /\ worker_pc' = "exited"
    /\ UNCHANGED <<fg_flags, threading_mode, main_pc, pending, produced,
                   processed, acc>>
    /\ UNCHANGED notGenVars

NextGen ==
    \/ StartThread \/ ThreadingFailed \/ ProduceBatch \/ ProduceInline
    \/ Put \/ EndOfData \/ Join \/ WorkerProcess \/ WorkerExit

\* ------------------------------------------------------------------------
\* studio/widgets/mil.py: MILWidget
\* ------------------------------------------------------------------------

MaxThreads == 2         \* prediction threads started in one session

ThreadIds == 1..MaxThreads
ModelPaths == {"A", "B"}

\* the steps of load at which an exception can leave the try block
FailPoints == {"read", "extractor", "reload", "config", "renderer"}

\* Thread.is_alive()
IsAlive(t) == threads[t] \in {"started", "running"}

WidgetStart ==
    /\ mil_params = "none"
    /\ extractor_params = "none"
    /\ mil_config = "none"
    /\ w_predictions = 0
    /\ w_attention = 0
    /\ mil_path = "none"
    /\ viz_model_path \in {"none", "tile"}
    /\ renderer = "none"
    /\ generating = FALSE
    /\ triggered = FALSE
    /\ w_thread = 0
    /\ w_toast = 0
    /\ threads = [t \in ThreadIds |-> "unstarted"]
    /\ toasts_done = {}
    /\ ui_pc = "idle"
    /\ load_path = "none"
    /\ last = "init"

WidgetIdle ==
    /\ mil_params = "none"
    /\ extractor_params = "none"
    /\ mil_config = "none"
    /\ w_predictions = 0
    /\ w_attention = 0
    /\ mil_path = "none"
    /\ viz_model_path = "none"
    /\ renderer = "none"
    /\ generating = FALSE
    /\ triggered = FALSE
    /\ w_thread = 0
    /\ w_toast = 0
    /\ threads = <<>>
    /\ toasts_done = {}
    /\ ui_pc = "off"
    /\ load_path = "none"
    /\ last = "init"

\* close() after its join: the viewer's model path is cleared if it is this
\* model's, _initialize_variables() runs, and the renderer is closed on request
CloseRest(close_renderer) ==
    /\ viz_model_path' = IF mil_path = viz_model_path THEN "none" ELSE viz_model_path
    /\ mil_params' = "none"
    /\ extractor_params' = "none"
    /\ mil_config' = "none"
    /\ w_predictions' = 0
    /\ w_attention' = 0
    /\ mil_path' = "none"
    /\ generating' = FALSE
    /\ triggered' = FALSE
    /\ w_thread' = 0
    /\ w_toast' = 0
    /\ renderer' = IF close_renderer THEN "none" ELSE renderer

\* close(): `if self._thread is not None and self._thread.is_alive(): join()`
MustJoin == w_thread # 0 /\ IsAlive(w_thread)

\* close() called on the UI thread (menu item, _before_model_load)
Close ==
    /\ ui_pc = "idle"
    /\ IF MustJoin
       THEN /\ ui_pc' = "close_join"
            /\ last' = "close_called"
            /\ UNCHANGED <<mil_params, extractor_params, mil_config, w_predictions,
                           w_attention, mil_path, viz_model_path, renderer,
                           generating, triggered, w_thread, w_toast>>
       ELSE /\ CloseRest(TRUE)
            /\ last' = "close_returned"
            /\ UNCHANGED ui_pc
    /\ UNCHANGED <<threads, toasts_done, load_path>>
    /\ UNCHANGED notWidgetVars

\* close(): join() returns and the rest of close runs
CloseJoined ==
    /\ ui_pc = "close_join"
    /\ ~IsAlive(w_thread)
    /\ CloseRest(TRUE)
    /\ ui_pc' = "idle"
    /\ last' = "close_returned"
    /\ UNCHANGED <<threads, toasts_done, load_path>>
    /\ UNCHANGED notWidgetVars

\* load(path): self.close(close_renderer=False)
Load ==
    /\ ui_pc = "idle"
    /\ \E path \in ModelPaths : load_path' = path
    /\ IF MustJoin
       THEN /\ ui_pc' = "load_join"
            /\ UNCHANGED <<mil_params, extractor_params, mil_config, w_predictions,
                           w_attention, mil_path, viz_model_path, renderer,
                           generating, triggered, w_thread, w_toast>>
       ELSE /\ CloseRest(FALSE)
            /\ ui_pc' = "load_read"
    /\ last' = "load_called"
    /\ UNCHANGED <<threads, toasts_done>>
    /\ UNCHANGED notWidgetVars

\* load(path): the join inside close returns and the rest of close runs
LoadJoined ==
    /\ ui_pc = "load_join"
    /\ ~IsAlive(w_thread)
    /\ CloseRest(FALSE)
    /\ ui_pc' = "load_read"
    /\ last' = "load_closed"
    /\ UNCHANGED <<threads, toasts_done, load_path>>
    /\ UNCHANGED notWidgetVars

\* load(path) after close: the try block up to the step that raises (fail),
\* or to its end (fail = "none"). viz.close_model(True) belongs to the host
\* application: it may or may not clear the viewer's model path.
LoadBody ==
    /\ ui_pc = "load_read"
    /\ \E fail \in FailPoints \cup {"none"}, cleared \in BOOLEAN :
        /\ mil_params' = IF fail = "read" THEN mil_params ELSE load_path
        /\ extractor_params' = IF fail \in {"read", "extractor"}
                               THEN extractor_params ELSE load_path
        /\ mil_config' = IF fail \in {"read", "extractor", "reload", "config"}
                         THEN mil_config ELSE load_path
        /\ renderer' = IF fail = "none" THEN load_path ELSE renderer
        /\ mil_path' = IF fail = "none" THEN load_path ELSE mil_path
        /\ viz_model_path' = IF fail = "none" THEN load_path
                             ELSE IF fail = "renderer" /\ cleared THEN "none"
                             ELSE viz_model_path
        /\ last' = IF fail = "none" THEN "load_ok" ELSE "load_failed"
    /\ ui_pc' = "idle"
    /\ UNCHANGED <<w_predictions, w_attention, generating, triggered, w_thread,
                   w_toast, threads, toasts_done, load_path>>
    /\ UNCHANGED notWidgetVars

\* _refresh_generating_prediction has something to do
RefreshDue == generating /\ w_thread # 0 /\ ~IsAlive(w_thread)

\* __call__ with no button pressed: `if self._generating:
\* self._refresh_generating_prediction()`
Frame ==
    /\ ui_pc = "idle"
    /\ IF RefreshDue
       THEN /\ generating' = FALSE
            /\ triggered' = FALSE
            /\ w_thread' = 0
            /\ toasts_done' = IF w_toast # 0 THEN toasts_done \cup {w_toast}
                              ELSE toasts_done
            /\ w_toast' = 0
       ELSE UNCHANGED <<generating, triggered, w_thread, w_toast, toasts_done>>
    /\ last' = "frame"
    /\ UNCHANGED <<mil_params, extractor_params, mil_config, w_predictions,
                   w_attention, mil_path, viz_model_path, renderer, threads, ui_pc,
                   load_path>>
    /\ UNCHANGED notWidgetVars

\* __call__ with the "Predict Slide" button pressed: the refresh, then
\* predict_enabled (a slide is open, a model is loaded, not self._triggered),
\* then predict_slide(): verify_tile_size passes, the sticky toast is made
\* and the thread is created and started
FramePredict ==
    /\ ui_pc = "idle"
    /\ mil_params # "none"
    /\ IF RefreshDue THEN TRUE ELSE ~triggered
    /\ \E t \in ThreadIds :
        /\ threads[t] = "unstarted"
        /\ \A u \in ThreadIds : u < t => threads[u] # "unstarted"
        /\ threads' = [threads EXCEPT ![t] = "started"]
        /\ w_thread' = t
        /\ w_toast' = t
    /\ generating' = IF RefreshDue THEN FALSE ELSE generating
    /\ triggered' = FALSE
    /\ toasts_done' = IF RefreshDue /\ w_toast # 0 THEN toasts_done \cup {w_toast}
                      ELSE toasts_done
    /\ last' = "predict_slide"
    /\ UNCHANGED <<mil_params, extractor_params, mil_config, w_predictions,
                   w_attention, mil_path, viz_model_path, renderer, ui_pc, load_path>>
    /\ UNCHANGED notWidgetVars

\* _predict_slide on its thread: self._generating = True; self._triggered = True
ThreadSetFlags ==
    /\ \E t \in ThreadIds :
        /\ threads[t] = "started"
        /\ threads' = [threads EXCEPT ![t] = "running"]
    /\ generating' = TRUE
    /\ triggered' = TRUE
    /\ last' = "thread"
    /\ UNCHANGED <<mil_params, extractor_params, mil_config, w_predictions,
                   w_attention, mil_path, viz_model_path, renderer, w_thread,
                   w_toast, toasts_done, ui_pc, load_path>>
    /\ UNCHANGED notWidgetVars

\* _predict_slide on its thread: the rest of it. It stores self.predictions
\* and self.attention and renders the heatmap, or an exception ends it first.
ThreadFinish ==
    /\ \E t \in ThreadIds, ok \in BOOLEAN, att \in BOOLEAN :
        /\ threads[t] = "running"
        /\ threads' = [threads EXCEPT ![t] = "finished"]
        /\ w_predictions' = IF ok THEN t ELSE w_predictions
        /\ w_attention' = IF ok THEN (IF att THEN t ELSE 0) ELSE w_attention
    /\ last' = "thread"
    /\ UNCHANGED <<mil_params, extractor_params, mil_config, mil_path,
                   viz_model_path, renderer, generating, triggered, w_thread,
                   w_toast, toasts_done, ui_pc, load_path>>
    /\ UNCHANGED notWidgetVars

NextWidget ==
    \/ Close \/ CloseJoined \/ Load \/ LoadJoined \/ LoadBody
    \/ Frame \/ FramePredict \/ ThreadSetFlags \/ ThreadFinish

\* ------------------------------------------------------------------------
\* model/features.py: DatasetFeatures
\* ------------------------------------------------------------------------

MaxTiles == 2           \* tiles in one slide's record file
MaxTfrecords == 4       \* entries of self.tfrecords (merge concatenates them)

\* slide names in sorted order
SlideOrder == <<"s1", "s2">>
DFSlides == Range(SlideOrder)
Objects == {"A", "B"}
TileIds == 1..(3 * MaxTiles)

\* the tiles of slide s in the order its record file stores them; the file
\* holds n tiles
TFRecordTiles(s, n) ==
    [k \in 1..n |->
        CHOOSE t \in TileIds :
            /\ SlideOfTile(t) = s
            /\ Cardinality({u \in 1..t : SlideOfTile(u) = s}) = k]

\* The locations the tiling pipeline stored: all different, or two tiles of
\* one slide at the same location.
LocMaps == {[t \in TileIds |-> t], [t \in TileIds |-> IF t = 2 THEN 1 ELSE t]}

\* A dataset: its (filtered) record files, one per slide, and their sizes.
Datasets ==
    {d \in [slides : (SUBSET DFSlides) \ {{}}, ntiles : [DFSlides -> 0..MaxTiles]] :
        \A s \in DFSlides \ d.slides : d.ntiles[s] = 0}

\* sorted([path_to_name(t) for t in self.tfrecords])
SortedSlides(S) == SelectSeq(SlideOrder, LAMBDA s : s \in S)

PermsOfSeq(seq) == {[i \in 1..Len(seq) |-> seq[p[i] + 1]] : p \in RandPerms(Len(seq))}

RECURSIVE Flatten(_)
Flatten(seqs) == IF seqs = <<>> THEN <<>> ELSE Head(seqs) \o Flatten(Tail(seqs))

\* The orders in which the dataloader can hand over a dataset's tiles. Only
\* each slide's own order and the order of the slides' first tiles matter to
\* the accumulators. Without stored locations the read is deterministic and a
\* slide's tiles come in file order (build_dataset: deterministic=True).
ArrivalOrders(d, loc) ==
    LET tiles(s) == TFRecordTiles(s, d.ntiles[s])
        own(s) == IF loc THEN PermsOfSeq(tiles(s)) ELSE {tiles(s)}
        all == UNION {own(s) : s \in d.slides}
    IN  {Flatten([i \in 1..Len(bo) |-> w[bo[i]]]) :
            bo \in PermsOfSeq(SortedSlides(d.slides)),
            w \in {f \in [d.slides -> all] : \A s \in d.slides : f[s] \in own(s)}}

\* the keys of a defaultdict in insertion order
RECURSIVE KeyOrder(_)
KeyOrder(order) ==
    IF order = <<>> THEN <<>>
    ELSE LET front == KeyOrder(SubSeq(order, 1, Len(order) - 1))
             k == SlideOfTile(order[Len(order)])
         IN  IF k \in Range(front) THEN front ELSE Append(front, k)

\* dataset.get_tfrecord_locations(slide)
TrueLocs(lm, d, s) == [k \in 1..d.ntiles[s] |-> lm[TFRecordTiles(s, d.ntiles[s])[k]]]

\* list.index(v), from 0
ListIndex(seq, v) == (CHOOSE i \in 1..Len(seq) :
                        seq[i] = v /\ \A j \in 1..(i - 1) : seq[j] # v) - 1

\* idx = [true_locs.index(tuple(cur_locs[i])) for i in range(cur_locs.shape[0])]
SortIdx(lm, a, d, s) ==
    [i \in 1..Len(a.locations[s]) |-> ListIndex(TrueLocs(lm, d, s), lm[a.locations[s][i]])]

MaxOf(seq) == CHOOSE m \in Range(seq) : \A x \in Range(seq) : x <= m

\* Mutant: argsort returns the identity.
ArgSortsIdentity(idx) == {[i \in 1..Len(idx) |-> i - 1]}

\* np.argsort(idx): a permutation that puts idx in order; equal entries may
\* come in either order
ArgSorts(idx) ==
    {p \in RandPerms(Len(idx)) :
        \A i, j \in 1..Len(idx) : i < j => idx[p[i] + 1] <= idx[p[j] + 1]}

\* arr[sorted_idx]
Take(arr, p) == [i \in 1..Len(p) |-> arr[p[i] + 1]]

PermuteDict(dict, s, p) ==
    IF s \in DOMAIN dict THEN [dict EXCEPT ![s] = Take(@, p)] ELSE dict

\* "Final sorting" of one slide
SortSlide(a, s, p) ==
    [activations |-> PermuteDict(a.activations, s, p),
     predictions |-> PermuteDict(a.predictions, s, p),
     uncertainty |-> PermuteDict(a.uncertainty, s, p),
     locations |-> PermuteDict(a.locations, s, p)]

\* the re-sort raises: self.activations[s] of a slide without rows (KeyError),
\* or `assert max(idx) + 1 == len(idx)`
SortRaises(lm, a, d) ==
    \E s \in d.slides :
        \/ s \notin DOMAIN a.activations
        \/ MaxOf(SortIdx(lm, a, d, s)) + 1 # Len(SortIdx(lm, a, d, s))

\* "Perform sorting for each slide": the results the loop can leave
RECURSIVE SortSlides(_, _, _, _)
SortSlides(lm, a, d, slides) ==
    IF slides = <<>> THEN {a}
    ELSE UNION {SortSlides(lm, SortSlide(a, Head(slides), p), d, Tail(slides)) :
                    p \in ArgSorts(SortIdx(lm, a, d, Head(slides)))}

\* The outcomes of _generate_features over dataset d, whose record files
\* store the locations lm: generate, np.stack, and the re-sort when the
\* record files carry locations.
GenerateFeatures(lm, d, flags, order) ==
    LET a == process_batch(EmptyAcc, order, flags)
        keys == KeyOrder(order)
    IN  IF ~flags.loc THEN {[raised |-> FALSE, acc |-> a, akeys |-> keys]}
        ELSE IF SortRaises(lm, a, d) THEN {[raised |-> TRUE, acc |-> EmptyAcc, akeys |-> keys]}
        ELSE {[raised |-> FALSE, acc |-> sorted, akeys |-> keys] :
                sorted \in SortSlides(lm, a, d, SortedSlides(d.slides))}

\* load_cache(path) in an object whose slide list is slides: the four
\* dictionaries are taken from the file; self.activations[self.slides[0]] and
\* self.predictions[self.slides[0]] raise KeyError on a missing key
LoadCache(slides, file) ==
    IF \/ DOMAIN file.acc.activations # {} /\ slides[1] \notin DOMAIN file.acc.activations
       \/ DOMAIN file.acc.predictions # {} /\ slides[1] \notin DOMAIN file.acc.predictions
    THEN [raised |-> TRUE, acc |-> EmptyAcc, akeys |-> file.akeys]
    ELSE [raised |-> FALSE, acc |-> file.acc, akeys |-> file.akeys]

\* del dict[k]
DictDel(dict, k) == [x \in DOMAIN dict \ {k} |-> dict[x]]

\* dict.update(other)
DictUpdate(dict, other) ==
    [k \in DOMAIN dict \cup DOMAIN other |-> IF k \in DOMAIN other THEN other[k] ELSE dict[k]]

Without(seq, x) == SelectSeq(seq, LAMBDA y : y # x)

\* remove_slide(slide) on object o
remove_slide(o, slide) ==
    [o EXCEPT !.acc = [activations |-> DictDel(o.acc.activations, slide),
                       predictions |-> DictDel(o.acc.predictions, slide),
                       uncertainty |-> DictDel(o.acc.uncertainty, slide),
                       locations |-> DictDel(o.acc.locations, slide)],
              !.akeys = Without(o.akeys, slide),
              !.tfrecords = Without(o.tfrecords, slide),
              !.slides = Without(o.slides, slide)]

\* Mutant: the constructor removes nothing.
PruneNothing(o, loaded_slides) == o

\* __init__: "Now delete slides not included in our filtered TFRecord list"
RECURSIVE Prune(_, _)
Prune(o, loaded_slides) ==
    IF loaded_slides = <<>> THEN o
    ELSE IF Head(loaded_slides) \notin Range(o.slides)
         THEN Prune(remove_slide(o, Head(loaded_slides)), Tail(loaded_slides))
         ELSE Prune(o, Tail(loaded_slides))

\* a.merge(b)
merge(a, b) ==
    [a EXCEPT !.acc = [activations |-> DictUpdate(a.acc.activations, b.acc.activations),
                       predictions |-> DictUpdate(a.acc.predictions, b.acc.predictions),
                       uncertainty |-> DictUpdate(a.acc.uncertainty, b.acc.uncertainty),
                       locations |-> DictUpdate(a.acc.locations, b.acc.locations)],
              !.akeys = a.akeys \o SelectSeq(b.akeys, LAMBDA k : k \notin Range(a.akeys)),
              !.tfrecords = a.tfrecords \o b.tfrecords,
              !.slides = a.akeys \o SelectSeq(b.akeys, LAMBDA k : k \notin Range(a.akeys))]

\* An object before its construction. Three fields record how it was
\* constructed: origin ("fresh" or "cache"), given (the dataset's slide list)
\* and loaded (the slides generate or the cache file had activations for).
NewObject == [state |-> "new", acc |-> EmptyAcc, akeys |-> <<>>, slides |-> <<>>,
              tfrecords |-> <<>>, origin |-> "none", given |-> <<>>, loaded |-> {}]

\* __init__ left by an exception
RaisedObject(origin, slides, keys) ==
    [NewObject EXCEPT !.state = "raised", !.origin = origin, !.given = slides,
                      !.loaded = Range(keys)]

\* The generator configurations drawn: features only, or features with
\* predictions and uncertainty; record files with or without locations.
DFFlags == {f \in FlagSet : f.layers /\ f.uq = f.preds}

\* _generate_features over every order in which the tiles can arrive
FreshResults ==
    [lm \in LocMaps |-> [d \in Datasets |-> [flags \in DFFlags |->
        UNION {GenerateFeatures(lm, d, flags, order) :
                order \in ArrivalOrders(d, flags.loc)}]]]

\* The cache files an earlier run can have left: save_cache at the end of a
\* _generate_features that did not raise, over any dataset.
CacheFiles ==
    [lm \in LocMaps |->
        {r \in UNION {FreshResults[lm][d][flags] : d \in Datasets, flags \in DFFlags} :
            ~r.raised}]

DFStart ==
    /\ dfs = [o \in Objects |-> NewObject]
    /\ tile_loc \in LocMaps

DFIdle ==
    /\ dfs = <<>>
    /\ tile_loc = <<>>

\* the object __init__ leaves, given its slide list and what load_cache or
\* _generate_features returned: the slides that are not in the list are removed
Constructed(origin, slides, r) ==
    IF r.raised THEN RaisedObject(origin, slides, r.akeys)
    ELSE Prune([state |-> "built", acc |-> r.acc, akeys |-> r.akeys,
                slides |-> slides, tfrecords |-> slides,
                origin |-> origin, given |-> slides, loaded |-> Range(r.akeys)],
               r.akeys)

\* what DatasetFeatures(model, dataset) can leave, over every dataset,
\* configuration and arrival order
FreshObjects ==
    [lm \in LocMaps |->
        UNION {{Constructed("fresh", SortedSlides(x[1].slides), r) :
                    r \in FreshResults[lm][x[1]][x[2]]} :
                x \in Datasets \X DFFlags}]

\* what DatasetFeatures(model, dataset, cache=path) can leave when the file
\* is present, over every slide list and cache file
CacheObjects ==
    [lm \in LocMaps |->
        {Constructed("cache", SortedSlides(x[1]), LoadCache(SortedSlides(x[1]), x[2])) :
            x \in ((SUBSET DFSlides) \ {{}}) \X CacheFiles[lm]}]

\* DatasetFeatures(model, dataset): features are generated
ConstructFresh ==
    \E o \in Objects :
        /\ dfs[o].state = "new"
        /\ \E obj \in FreshObjects[tile_loc] : dfs' = [dfs EXCEPT ![o] = obj]
        /\ UNCHANGED tile_loc
        /\ UNCHANGED notDFVars

\* DatasetFeatures(model, dataset, cache=path) with the file present:
\* the cache is loaded
ConstructFromCache ==
    \E o \in Objects :
        /\ dfs[o].state = "new"
        /\ \E obj \in CacheObjects[tile_loc] : dfs' = [dfs EXCEPT ![o] = obj]
        /\ UNCHANGED tile_loc
        /\ UNCHANGED notDFVars

\* A.merge(B)
Merge ==
    /\ dfs["A"].state = "built" /\ dfs["B"].state = "built"
    /\ Len(dfs["A"].tfrecords) + Len(dfs["B"].tfrecords) <= MaxTfrecords
    /\ dfs' = [dfs EXCEPT !["A"] = merge(dfs["A"], dfs["B"])]
    /\ UNCHANGED tile_loc
    /\ UNCHANGED notDFVars

\* A.remove_slide(slide)
RemoveSlide ==
    \E slide \in DFSlides :
        /\ dfs["A"].state = "built"
        /\ dfs' = [dfs EXCEPT !["A"] = remove_slide(dfs["A"], slide)]
        /\ UNCHANGED tile_loc
        /\ UNCHANGED notDFVars

NextDF == ConstructFresh \/ ConstructFromCache \/ Merge \/ RemoveSlide

\* ------------------------------------------------------------------------
\* Single calls
\* ------------------------------------------------------------------------

NotReturned == [done |-> FALSE]

CallIdle ==
    /\ call_args = <<>>
    /\ call_result = <<>>

\* the components that take no part in a single call
OthersIdle == BagIdle /\ ReaderIdle /\ GenIdle /\ WidgetIdle /\ DFIdle

\* ---- DatasetFeatures._generate_features, called once ----

\* The datasets of a single call: the first slide's record file may hold one
\* tile more, so that a file can store one location twice and another once.
GenerateDatasets ==
    Datasets \cup {[d EXCEPT !.ntiles["s1"] = MaxTiles + 1] :
                        d \in {x \in Datasets : "s1" \in x.slides}}

GenerateInputs ==
    UNION {{[lm |-> lm, d |-> x[1], flags |-> x[2], order |-> order] :
                order \in ArrivalOrders(x[1], x[2].loc)} :
            lm \in LocMaps, x \in GenerateDatasets \X DFFlags}

GenerateStart ==
    /\ call_args \in GenerateInputs
    /\ call_result = NotReturned

\* self._generate_features(...): generate, stack, re-sort
GenerateFeaturesCall ==
    /\ ~call_result.done
    /\ \E r \in GenerateFeatures(call_args.lm, call_args.d, call_args.flags, call_args.order) :
            call_result' = [done |-> TRUE, raised |-> r.raised, acc |-> r.acc, akeys |-> r.akeys]
    /\ UNCHANGED call_args
    /\ UNCHANGED notCallVars

NextGenerate == GenerateFeaturesCall

\* ---- util/smac_utils.py: create_search_space and its presets ----

MaxHiddenLayers == 1    \* largest hidden-layer count a caller lists

\* Argument values. A list or a 2-tuple is a sequence of integers; None is
\* the empty sequence (callers pass no empty list). A string entry is coded
\* as a negative integer. A float is coded in its own unit (hundredths for
\* learning_rate_decay, so 100 is a decay of 1).
None == <<>>
IsNumber(x) == x >= 0
DecayOne == 100

SearchArgs ==
    {"tile_px", "tile_um", "augment", "normalizer", "normalizer_source", "model",
     "batch_size", "dropout", "l1", "l2", "l1_dense", "l2_dense", "learning_rate",
     "learning_rate_decay", "learning_rate_decay_steps", "hidden_layers",
     "hidden_layer_width", "pooling", "trainable_layers"}

\* the keyword defaults of create_search_space
CreateDefaults == [n \in SearchArgs |-> None]

\* the keyword defaults of broad_search_space
BroadDefaults ==
    [n \in SearchArgs |->
        CASE n = "batch_size" -> <<8, 16, 32, 64>>
          [] n \in {"dropout", "l1", "l2", "l1_dense", "l2_dense"} -> <<0, 50>>
          [] n = "learning_rate" -> <<1, 100>>
          [] n = "learning_rate_decay" -> <<95, 100>>
          [] n = "learning_rate_decay_steps" -> <<128, 1024>>
          [] n = "hidden_layers" -> <<0, 1, 2, 3>>
          [] n = "hidden_layer_width" -> <<64, 128, 256, 512>>
          [] OTHER -> None]

\* the keyword defaults of shallow_search_space
ShallowDefaults ==
    [n \in SearchArgs |->
        CASE n = "batch_size" -> <<8, 16, 32, 64>>
          [] n \in {"dropout", "l2", "l2_dense"} -> <<0, 30>>
          [] n = "learning_rate" -> <<5, 50>>
          [] n = "hidden_layers" -> <<0, 1, 2>>
          [] OTHER -> None]

\* the arguments a function sees: its defaults, overridden by the keywords
BindArgs(defaults, kwargs) ==
    [n \in SearchArgs |-> IF n \in DOMAIN kwargs THEN kwargs[n] ELSE defaults[n]]

\* A hyperparameter of a space: its type and the values it can take. A range
\* (lo, hi) is represented by its two end points.
Hyperparameter(kind, arg) == [kind |-> kind, values |-> Range(arg)]

HyperparameterKind(n, arg) ==
    CASE n \in {"tile_px", "batch_size", "hidden_layers", "hidden_layer_width"} -> "ordinal"
      [] n = "tile_um" -> IF \A t \in Range(arg) : IsNumber(t) THEN "ordinal" ELSE "categorical"
      [] n \in {"augment", "normalizer", "normalizer_source", "model", "pooling"} -> "categorical"
      [] n \in {"learning_rate_decay_steps", "trainable_layers"} -> "int"
      [] OTHER -> "float"

\* NotEqualsCondition(child, parent, value), LessThanCondition(child, parent, value)
Condition(kind, child, parent, value) ==
    [kind |-> kind, child |-> child, parent |-> parent, value |-> value]

\* Mutant: no condition is added to the space.
ConditionsOfNone(args) == {}

\* the conditions create_search_space asks for, given its arguments
ConditionsOf(args) ==
    (IF args["hidden_layers"] # None /\ args["hidden_layer_width"] # None
     THEN {Condition("ne", "hidden_layer_width", "hidden_layers", 0)} ELSE {})
    \cup
    (IF args["learning_rate_decay"] # None /\ args["learning_rate_decay_steps"] # None
     THEN {Condition("lt", "learning_rate_decay_steps", "learning_rate_decay", DecayOne)}
     ELSE {})
    \cup
    (IF args["hidden_layers"] # None /\ args["l1_dense"] # None
     THEN {Condition("ne", "l1_dense", "hidden_layers", 0)} ELSE {})
    \cup
    (IF args["hidden_layers"] # None /\ args["l2_dense"] # None
     THEN {Condition("ne", "l2_dense", "hidden_layers", 0)} ELSE {})

\* Is the value a condition names one its parent can take? For a range the
\* values between the end points are legal too.
LegalValue(hps, c) ==
    IF hps[c.parent].kind \in {"float", "int"}
    THEN \E lo, hi \in hps[c.parent].values : lo <= c.value /\ c.value <= hi
    ELSE c.value \in hps[c.parent].values

\* create_search_space(**args, early_stop=early_stop): the space returned, or
\* that the call raised. tile_px with a string entry raises ValueError. The
\* early_stop hyperparameter is constructed and not added. A condition on a
\* value its parent cannot take is refused by some releases of the
\* ConfigSpace library and accepted by others.
create_search_space(args, early_stop) ==
    LET given == {n \in SearchArgs : args[n] # None}
        hps == [n \in given |-> Hyperparameter(HyperparameterKind(n, args[n]), args[n])]
        conds == ConditionsOf(args)
        built == [raised |-> FALSE, hps |-> hps, conditions |-> conds]
        failed == [raised |-> TRUE, hps |-> <<>>, conditions |-> {}]
    IN  IF args["tile_px"] # None /\ \E t \in Range(args["tile_px"]) : ~IsNumber(t)
        THEN {failed}
        ELSE IF \A c \in conds : LegalValue(hps, c)
        THEN {built}
        ELSE {built, failed}

broad_search_space(kwargs, early_stop) ==
    create_search_space(BindArgs(BroadDefaults, kwargs), early_stop)

shallow_search_space(kwargs, early_stop) ==
    create_search_space(BindArgs(ShallowDefaults, kwargs), early_stop)

\* the functions that pick, for every name, one of the values listed for it
RECURSIVE Choices(_)
Choices(sets) ==
    IF DOMAIN sets = {} THEN {<<>>}
    ELSE LET n == CHOOSE x \in DOMAIN sets : TRUE
         IN  {[x \in DOMAIN sets |-> IF x = n THEN v ELSE f[x]] :
                f \in Choices([x \in DOMAIN sets \ {n} |-> sets[x]]), v \in sets[n]}

\* ConfigSpace: does a condition hold for the value v of its parent
ConditionHolds(c, v) == IF c.kind = "ne" THEN v # c.value ELSE v < c.value

\* the hyperparameters a condition bears on
Conditioned(cs) == {c.child : c \in cs.conditions} \cup {c.parent : c \in cs.conditions}

Inactive == -1000

\* ConfigSpace: the configurations of a space, restricted to the
\* hyperparameters some condition bears on (the others are sampled
\* independently of them). A parent has no condition of its own and is always
\* active; a child is active, and has a value, exactly when its conditions hold.
Configurations(cs) ==
    LET parents == {c.parent : c \in cs.conditions}
        children == {c.child : c \in cs.conditions}
        active(n, pv) ==
            \A c \in cs.conditions : c.child = n => ConditionHolds(c, pv[c.parent])
    IN  UNION {{[n \in Conditioned(cs) |-> IF n \in parents THEN pv[n] ELSE cv[n]] :
                    cv \in Choices([n \in children |->
                                        IF active(n, pv) THEN cs.hps[n].values
                                        ELSE {Inactive}])} :
               pv \in Choices([n \in parents |-> cs.hps[n].values])}

\* the lists of hidden-layer counts a caller passes
HiddenLayerLists ==
    {SelectSeq([i \in 1..(MaxHiddenLayers + 1) |-> i - 1], LAMBDA x : x \in S) :
        S \in (SUBSET (0..MaxHiddenLayers)) \ {{}}}

\* what a caller passes for each keyword, when it passes it
KeywordValues ==
    [n \in SearchArgs |->
        CASE n = "hidden_layers" -> HiddenLayerLists
          [] n = "hidden_layer_width" -> {<<64, 128>>}
          [] n \in {"l1_dense", "l2_dense"} -> {<<0, 50>>}
          [] n = "learning_rate_decay" -> {<<99, 100>>, <<98, 99>>}
          [] n = "learning_rate_decay_steps" -> {<<128, 256>>}
          [] n = "tile_px" -> {<<299>>, <<-1>>}
          [] n = "tile_um" -> {<<302>>, <<-2>>}
          [] OTHER -> {<<1, 2>>}]

ConditionArgs ==
    {"hidden_layers", "hidden_layer_width", "l1_dense", "l2_dense",
     "learning_rate_decay", "learning_rate_decay_steps"}

\* The calls: create_search_space with any of the keywords conditions depend
\* on, with or without the other keywords; a preset with some of its defaults
\* switched off (None) and hidden_layers replaced.
SearchCalls ==
    LET kw(names) == Choices([n \in names |-> KeywordValues[n]])
        create == UNION {UNION {{[fn |-> "create_search_space", kwargs |-> f, early_stop |-> e] :
                                    f \in kw(names \cup rest), e \in BOOLEAN} :
                                rest \in {{}, {"tile_px"}, {"tile_um", "model"},
                                          SearchArgs \ (ConditionArgs \cup {"tile_px"})}} :
                            names \in SUBSET ConditionArgs}
        preset == UNION {UNION {{[fn |-> fn, early_stop |-> FALSE,
                                  kwargs |-> [n \in off \cup DOMAIN f |->
                                                IF n \in off THEN None ELSE f[n]]] :
                                    fn \in {"broad_search_space", "shallow_search_space"},
                                    f \in kw(names)} :
                                names \in SUBSET {"hidden_layers"}} :
                            off \in SUBSET (ConditionArgs \ {"hidden_layers"})}
    IN  create \cup preset

SearchStart ==
    /\ call_args \in SearchCalls
    /\ call_result = NotReturned

\* the call is made
SearchSpaceCall ==
    /\ ~call_result.done
    /\ \E r \in (CASE call_args.fn = "create_search_space" ->
                        create_search_space(BindArgs(CreateDefaults, call_args.kwargs),
                                            call_args.early_stop)
                   [] call_args.fn = "broad_search_space" ->
                        broad_search_space(call_args.kwargs, call_args.early_stop)
                   [] OTHER ->
                        shallow_search_space(call_args.kwargs, call_args.early_stop)) :
            call_result' = [done |-> TRUE, raised |-> r.raised, cs |-> r,
                            sampled |-> FALSE, cfg |-> <<>>]
    /\ UNCHANGED call_args
    /\ UNCHANGED notCallVars

\* cs.sample_configuration() on the returned space
SampleConfiguration ==
    /\ call_result.done /\ ~call_result.raised /\ ~call_result.sampled
    /\ \E cfg \in Configurations(call_result.cs) :
            call_result' = [call_result EXCEPT !.sampled = TRUE, !.cfg = cfg]
    /\ UNCHANGED call_args
    /\ UNCHANGED notCallVars

NextSearch == SearchSpaceCall \/ SampleConfiguration

\* ---- model/utils.py: the legacy batch-file parser ----

MaxFileRows == 2        \* configuration rows in a batch file

\* the model names in the files, and one more a caller may ask for
FileModelNames == {"m1", "m2"}
RequestNames == FileModelNames \cup {"m3"}

TrueWords == {"true", "yes", "y", "t"}
FalseWords == {"false", "no", "n", "f"}

\* the cells of the files
BoolCells == TrueWords \cup FalseWords \cup {"TRUE", "Yes", "N", "False", "maybe", ""}
FloatCells == {"0.5"}
EpochCells == {"1", "[1,3]"}

\* Mutant: the cell is compared as it is written.
LowerIdentity(cell) == cell

\* str.lower()
Lower(cell) ==
    CASE cell = "TRUE" -> "true"
      [] cell = "Yes" -> "yes"
      [] cell = "N" -> "n"
      [] cell = "False" -> "false"
      [] OTHER -> cell

\* float(value), in tenths
ParseFloat(cell) == CASE cell = "0.5" -> 5 [] OTHER -> 0

\* [int(i) for i in value.translate({'[': '', ']': ''}).split(',')]
ParseEpochs(cell) == CASE cell = "1" -> <<1>> [] cell = "[1,3]" -> <<1, 3>> [] OTHER -> <<>>

\* HyperParameters(): the fields of a fresh object and their declared types
FreshHP == [early_stop |-> FALSE, dropout |-> 1, epochs |-> <<3>>]
HPArgs == DOMAIN FreshHP
ArgType == [early_stop |-> "bool", dropout |-> "float", epochs |-> "list"]

NoError == [type |-> "none", value |-> "", arg |-> ""]

\* ValueError(f'Unable to parse "{value}" for batch file argument "{arg}" into a bool.')
ParseError(value, arg) == [type |-> "ValueError", value |-> value, arg |-> arg]

\* the ValueError of float(value), int(value) or list.index(value): its
\* message holds the value alone
ValueError(value) == [type |-> "ValueError", value |-> value, arg |-> ""]

\* list.index(x) (from 1); 0 when x is not in the list, where Python raises
Index(seq, x) ==
    IF x \in Range(seq)
    THEN CHOOSE i \in 1..Len(seq) : seq[i] = x /\ \A j \in 1..(i - 1) : seq[j] # x
    ELSE 0

\* get_hp_from_row, the loop `for arg in args` from args[k] on
RECURSIVE CoerceArgs(_, _, _, _, _)
CoerceArgs(hp, row, header, args, k) ==
    IF k > Len(args) THEN [raised |-> FALSE, error |-> NoError, hp |-> hp]
    ELSE LET arg == args[k]
             value == row[Index(header, arg)]
             failed(e) == [raised |-> TRUE, error |-> e, hp |-> FreshHP]
         IN  IF arg \notin HPArgs
             THEN CoerceArgs(hp, row, header, args, k + 1)
             ELSE IF arg = "epochs"
             THEN IF value \in EpochCells
                  THEN CoerceArgs([hp EXCEPT !.epochs = ParseEpochs(value)],
                                  row, header, args, k + 1)
                  ELSE failed(ValueError(value))
             ELSE IF ArgType[arg] = "bool"
             THEN IF Lower(value) \in TrueWords
                  THEN CoerceArgs([hp EXCEPT ![arg] = TRUE], row, header, args, k + 1)
                  ELSE IF Lower(value) \in FalseWords
                  THEN CoerceArgs([hp EXCEPT ![arg] = FALSE], row, header, args, k + 1)
                  ELSE failed(ParseError(value, arg))
             ELSE IF value \in FloatCells
                  THEN CoerceArgs([hp EXCEPT ![arg] = ParseFloat(value)],
                                  row, header, args, k + 1)
                  ELSE failed(ValueError(value))

\* get_hp_from_row(row, header); header.index('model_name') raises ValueError
\* when the column is missing
get_hp_from_row(row, header) ==
    LET model_name_i == Index(header, "model_name")
    IN  IF model_name_i = 0
        THEN [raised |-> TRUE, error |-> ValueError("model_name"),
              hp |-> FreshHP, model_name |-> ""]
        ELSE LET args == SubSeq(header, 1, model_name_i - 1)
                            \o SubSeq(header, model_name_i + 1, Len(header))
                 r == CoerceArgs(FreshHP, row, header, args, 1)
             IN  [raised |-> r.raised, error |-> r.error, hp |-> r.hp,
                  model_name |-> row[model_name_i]]

\* list(set(models)): the names without repetition, in the order the set
\* iterates, which for strings changes from one interpreter run to the next
RECURSIVE Dedup(_)
Dedup(seq) ==
    IF seq = <<>> THEN <<>>
    ELSE LET front == Dedup(SubSeq(seq, 1, Len(seq) - 1))
         IN  IF seq[Len(seq)] \in Range(front) THEN front ELSE Append(front, seq[Len(seq)])

SetOrders(seq) == PermsOfSeq(Dedup(seq))

UserError == [type |-> "UserError", value |-> "", arg |-> ""]
ModelsError == [type |-> "ValueError", value |-> "", arg |-> "model_name"]

\* "First, ensure all indicated models are in the batch train file": does the
\* check of rows k.. raise, given the names found so far
RECURSIVE CheckRows(_, _, _, _, _)
CheckRows(rows, model_name_i, models, valid_models, k) ==
    IF k > Len(rows) THEN \E m \in Range(models) : m \notin Range(valid_models)
    ELSE LET model_name == rows[k][model_name_i]
         IN  IF model_name \in Range(models)
             THEN IF model_name \in Range(valid_models) THEN TRUE
                  ELSE CheckRows(rows, model_name_i, models,
                                 Append(valid_models, model_name), k + 1)
             ELSE CheckRows(rows, model_name_i, models, valid_models, k + 1)

\* `for row in batch_train_rows`, from row k on; calls lists the results of
\* the get_hp_from_row calls made so far
RECURSIVE ParseRows(_, _, _, _, _)
ParseRows(file, models, hyperparameters, calls, k) ==
    IF k > Len(file.rows)
    THEN [raised |-> FALSE, error |-> NoError, value |-> hyperparameters, calls |-> calls]
    ELSE LET r == get_hp_from_row(file.rows[k], file.header)
         IN  IF r.raised
             THEN [raised |-> TRUE, error |-> r.error, value |-> <<>>,
                   calls |-> Append(calls, r)]
             ELSE IF models.given /\ models.names # <<>> /\ r.model_name \notin Range(models.names)
             THEN ParseRows(file, models, hyperparameters, Append(calls, r), k + 1)
             ELSE ParseRows(file, models,
                            [n \in DOMAIN hyperparameters \cup {r.model_name} |->
                                IF n = r.model_name THEN r.hp ELSE hyperparameters[n]],
                            Append(calls, r), k + 1)

\* get_hp_from_batch_file(batch_train_file, models): its possible outcomes
get_hp_from_batch_file(file, models) ==
    LET failed(e) == [raised |-> TRUE, error |-> e, value |-> <<>>, calls |-> <<>>]
        checked ==
            IF models.given /\ models.names # <<>>
            THEN IF Index(file.header, "model_name") = 0 THEN failed(ModelsError)
                 ELSE IF CheckRows(file.rows, Index(file.header, "model_name"),
                                   models.names, <<>>, 1)
                 THEN failed(ModelsError)
                 ELSE ParseRows(file, models, <<>>, <<>>, 1)
            ELSE ParseRows(file, models, <<>>, <<>>, 1)
    IN  IF ~models.given THEN {checked}
        ELSE {IF order = models.names THEN checked ELSE failed(UserError) :
                order \in SetOrders(models.names)}

\* A family of batch files: a header and the cells each column can hold
FileFamilies ==
    {[header |-> <<"model_name", "early_stop">>,
      cells |-> <<FileModelNames, BoolCells>>, wide |-> TRUE],
     [header |-> <<"early_stop", "model_name", "dropout">>,
      cells |-> <<{"Yes", "maybe"}, FileModelNames, {"0.5", "maybe"}>>, wide |-> FALSE],
     [header |-> <<"dropout", "early_stop">>,
      cells |-> <<{"0.5"}, {"no", "maybe"}>>, wide |-> FALSE],
     [header |-> <<"model_name", "comment", "epochs">>,
      cells |-> <<FileModelNames, {"x"}, {"1", "[1,3]", "maybe"}>>, wide |-> FALSE]}

NoModels == [given |-> FALSE, names |-> <<>>]

\* the lists of model names a caller asks for
ModelLists(wide) ==
    IF wide
    THEN {<<"m1">>, <<"m2", "m1">>}
    ELSE UNION {[1..k -> RequestNames] : k \in 0..Cardinality(FileModelNames)}

\* the rows a file of the family can hold
RowsOf ==
    [fam \in FileFamilies |->
        {row \in [1..Len(fam.header) -> UNION Range(fam.cells)] :
            \A i \in 1..Len(fam.header) : row[i] \in fam.cells[i]}]

BatchStart ==
    /\ \E fam \in FileFamilies, k \in 0..MaxFileRows :
        \E rows \in [1..k -> RowsOf[fam]] :
            \E models \in {NoModels} \cup
                           {[given |-> TRUE, names |-> l] : l \in ModelLists(fam.wide)} :
                call_args = [file |-> [header |-> fam.header, rows |-> rows],
                             models |-> models]
    /\ call_result = NotReturned

\* get_hp_from_batch_file(batch_train_file, models) is called
BatchFileCall ==
    /\ ~call_result.done
    /\ \E r \in get_hp_from_batch_file(call_args.file, call_args.models) :
            call_result' = [done |-> TRUE, raised |-> r.raised, error |-> r.error,
                            value |-> r.value, calls |-> r.calls]
    /\ UNCHANGED call_args
    /\ UNCHANGED notCallVars

NextBatch == BatchFileCall

\* ---- studio/widgets/mil.py: _reshape_as_heatmap ----

MaxCells == 4       \* total_elements: the cells of the tile grid
MaxValue == 2       \* predictions are the numbers 0..MaxValue

\* An array cell: np.nan, or the exact quotient num / den in lowest terms.
NaN == [nan |-> TRUE, num |-> 0, den |-> 1]

RECURSIVE Gcd(_, _)
Gcd(a, b) == IF b = 0 THEN a ELSE Gcd(b, a % b)

Number(x) == [nan |-> FALSE, num |-> x, den |-> 1]

\* a - b on cells with den = 1; nan - b is nan
Minus(a, b) == IF a.nan \/ b.nan THEN NaN ELSE Number(a.num - b.num)

\* a / b on non-negative cells with den = 1: nan when either is nan, and
\* 0 / 0 is nan
Divide(a, b) ==
    IF a.nan \/ b.nan \/ b.num = 0 THEN NaN
    ELSE [nan |-> FALSE, num |-> a.num \div Gcd(a.num, b.num), den |-> b.num \div Gcd(a.num, b.num)]

\* Mutant: the heatmap is scaled by its maximum only.
NanMinZero(heatmap) == Number(0)

\* np.nanmin(heatmap), np.nanmax(heatmap): nan when every cell is nan
NanMin(heatmap) ==
    LET vals == {heatmap[i].num : i \in {j \in 1..Len(heatmap) : ~heatmap[j].nan}}
    IN  IF vals = {} THEN NaN ELSE Number(CHOOSE m \in vals : \A v \in vals : m <= v)

NanMax(heatmap) ==
    LET vals == {heatmap[i].num : i \in {j \in 1..Len(heatmap) : ~heatmap[j].nan}}
    IN  IF vals = {} THEN NaN ELSE Number(CHOOSE m \in vals : \A v \in vals : v <= m)

\* heatmap.reshape(shape): row r holds the cells r * shape[2] .. of the flat array
Reshape(flat, shape) ==
    [r \in 1..shape[1] |-> [c \in 1..shape[2] |-> flat[(r - 1) * shape[2] + c]]]

\* _reshape_as_heatmap(predictions, unmasked_indices, original_shape, total_elements)
reshape_as_heatmap(predictions, unmasked_indices, original_shape, total_elements) ==
    LET full == [i \in 1..total_elements |-> NaN]
        heatmap == [i \in 1..total_elements |->
                        IF i - 1 \in Range(unmasked_indices)
                        THEN Number(predictions[Index(unmasked_indices, i - 1)])
                        ELSE full[i]]
        lo == NanMin(heatmap)
        span == Minus(NanMax(heatmap), lo)
        normalized == [i \in 1..total_elements |-> Divide(Minus(heatmap[i], lo), span)]
    IN  Reshape(normalized, SubSeq(original_shape, 1, 2))

\* np.where(~mask): the positions of a set, ascending
RECURSIVE Ascending(_)
Ascending(S) ==
    IF S = {} THEN <<>>
    ELSE LET m == CHOOSE x \in S : \A y \in S : y <= x
         IN  Append(Ascending(S \ {m}), m)

\* masked_bags.shape: grid rows, grid columns, features
GridShapes(total) ==
    {<<h, total \div h, 1>> : h \in {x \in 1..total : total % x = 0}}

HeatmapStart ==
    /\ \E total \in 1..MaxCells :
        \E valid \in SUBSET (0..(total - 1)), shape \in GridShapes(total) :
            \E predictions \in [1..Cardinality(valid) -> 0..MaxValue] :
                call_args = [predictions |-> predictions,
                             unmasked_indices |-> Ascending(valid),
                             original_shape |-> shape,
                             total_elements |-> total]
    /\ call_result = NotReturned

\* _reshape_as_heatmap is called
ReshapeAsHeatmapCall ==
    /\ ~call_result.done
    /\ call_result' = [done |-> TRUE,
                       heatmap |-> reshape_as_heatmap(call_args.predictions,
                                                      call_args.unmasked_indices,
                                                      call_args.original_shape,
                                                      call_args.total_elements)]
    /\ UNCHANGED call_args
    /\ UNCHANGED notCallVars

NextHeatmap == ReshapeAsHeatmapCall

\* ---- model/features.py: softmax_percent, softmax_predict ----

MaxVoteTiles == 3   \* tiles with predictions, over all slides
NumClasses == 3     \* self.num_classes, the width of the prediction rows

Classes == 0..(NumClasses - 1)

\* a tile's prediction row
TileScores == [Classes -> 0..1]

\* np.argmax(row): the first position (from 0) of the largest entry
ArgMax(row) ==
    (CHOOSE i \in 1..Len(row) :
        /\ \A j \in 1..Len(row) : row[j] <= row[i]
        /\ \A j \in 1..(i - 1) : row[j] < row[i]) - 1

\* np.argmax over an array of quotients
ArgMaxQuotient(row) ==
    LET le(a, b) == a.num * b.den <= b.num * a.den
        lt(a, b) == a.num * b.den < b.num * a.den
    IN  (CHOOSE i \in 1..Len(row) :
            /\ \A j \in 1..Len(row) : le(row[j], row[i])
            /\ \A j \in 1..(i - 1) : lt(row[j], row[i])) - 1

\* predictions[slide][:, prediction_filter], one row of it
FilterColumns(tile, prediction_filter) ==
    [i \in 1..Len(prediction_filter) |-> tile[prediction_filter[i]]]

\* list(range(self.num_classes))
AllClasses == [i \in 1..NumClasses |-> i - 1]

\* the prediction_filter the loop uses: an absent or empty filter is replaced
EffectiveFilter(prediction_filter) ==
    IF prediction_filter # None THEN prediction_filter ELSE AllClasses

\* `assert max(prediction_filter) <= self.num_classes` fails, or a column
\* index is outside the prediction rows (IndexError)
FilterRaises(prediction_filter) ==
    \E i \in Range(prediction_filter) : i \notin Classes

\* tile_pred = np.argmax(self.predictions[slide][:, prediction_filter], axis=1)
TilePred(tiles, prediction_filter) ==
    [t \in 1..Len(tiles) |-> ArgMax(FilterColumns(tiles[t], prediction_filter))]

\* slide_perc: np.count_nonzero(tile_pred == logit) / len(tile_pred) for
\* logit in range(self.num_classes)
SlidePerc(tiles, prediction_filter) ==
    LET tile_pred == TilePred(tiles, prediction_filter)
    IN  [i \in 1..NumClasses |->
            Divide(Number(Count(tile_pred, i - 1)), Number(Len(tile_pred)))]

\* softmax_percent(prediction_filter) on an object with these predictions
softmax_percent(predictions, prediction_filter) ==
    IF FilterRaises(prediction_filter) THEN [raised |-> TRUE, value |-> <<>>]
    ELSE [raised |-> FALSE,
          value |-> [slide \in DOMAIN predictions |->
                        SlidePerc(predictions[slide], EffectiveFilter(prediction_filter))]]

\* softmax_predict(prediction_filter)
softmax_predict(predictions, prediction_filter) ==
    IF FilterRaises(prediction_filter) THEN [raised |-> TRUE, value |-> <<>>]
    ELSE [raised |-> FALSE,
          value |-> [slide \in DOMAIN predictions |->
                        ArgMaxQuotient(SlidePerc(predictions[slide],
                                                 EffectiveFilter(prediction_filter)))]]

\* the filters a caller passes: none, ascending lists of classes, a list out
\* of order, and one that names the class count itself
PredictionFilters ==
    {None, <<2, 1>>, <<1, NumClasses>>}
        \cup {Ascending(S) : S \in (SUBSET Classes) \ {{}}}

\* how MaxVoteTiles tiles can be spread over the slides
TileCounts ==
    {n \in [DFSlides -> 0..MaxVoteTiles] :
        n["s1"] >= 1 /\ n["s1"] + n["s2"] <= MaxVoteTiles}

VotesStart ==
    /\ \E n \in TileCounts, prediction_filter \in PredictionFilters,
          fn \in {"softmax_percent", "softmax_predict"} :
        \E p1 \in [1..n["s1"] -> TileScores], p2 \in [1..n["s2"] -> TileScores] :
            call_args = [fn |-> fn,
                         prediction_filter |-> prediction_filter,
                         predictions |-> [slide \in {x \in DFSlides : n[x] >= 1} |->
                                            IF slide = "s1" THEN p1 ELSE p2]]
    /\ call_result = NotReturned

SoftmaxPercentCall ==
    /\ ~call_result.done
    /\ call_args.fn = "softmax_percent"
    /\ LET r == softmax_percent(call_args.predictions, call_args.prediction_filter)
       IN  call_result' = [done |-> TRUE, raised |-> r.raised, value |-> r.value]
    /\ UNCHANGED call_args
    /\ UNCHANGED notCallVars

SoftmaxPredictCall ==
    /\ ~call_result.done
    /\ call_args.fn = "softmax_predict"
    /\ LET r == softmax_predict(call_args.predictions, call_args.prediction_filter)
       IN  call_result' = [done |-> TRUE, raised |-> r.raised, value |-> r.value]
    /\ UNCHANGED call_args
    /\ UNCHANGED notCallVars

NextVotes == SoftmaxPercentCall \/ SoftmaxPredictCall


\* ---- mil/data.py: _to_fixed_size_bag on any tensor, MultiBagDataset ----

MaxItems == 2       \* items in one slide's bag tuple, and n_bags

\* Instances of a 4-D bag (shape [F, H, W] with F = 2 and H * W = 2): for each
\* feature, its H * W cells.
Maps == {<<<<0, 0>>, <<0, 0>>>>, <<<<2, 0>>, <<0, 2>>>>, <<<<2, 2>>, <<0, 0>>>>}

RECURSIVE Sum(_)
Sum(seq) == IF seq = <<>> THEN 0 ELSE Head(seq) + Sum(Tail(seq))

\* bag.mean(dim=[2, 3]): each instance's features averaged over H and W
MeanOverMaps(bag) ==
    [i \in 1..Len(bag) |-> [f \in 1..Len(bag[i]) |-> Sum(bag[i][f]) \div Len(bag[i][f])]]

\* torch.cat((a, b)) of an a with adim dimensions and a 2-D b: a RuntimeError
\* unless a is 2-D as well
CatRaises(adim) == adim # 2

\* _to_fixed_size_bag(bag, bag_size) on a tensor of ndim dimensions; perm is
\* the value randperm returned. bag_flattened is computed and not used: the
\* samples are taken from bag.
ToFixedSizeBag(bag, ndim, size, perm) ==
    LET bag_flattened == IF ndim > 2 THEN MeanOverMaps(bag) ELSE bag
        sampled == to_fixed_size_bag(bag, size, perm)
    IN  IF CatRaises(ndim)
        THEN [raised |-> TRUE, bag |-> <<>>, length |-> 0]
        ELSE [raised |-> FALSE, bag |-> sampled.bag, length |-> sampled.length]

\* the tensors a bag item can hold
ItemBags == {<<<<1, 0>>>>, <<<<1, 0>>, <<0, 1>>>>}

\* the types of a bag item: a path, a numpy array, a tensor, anything else
ItemTypes == {"str", "ndarray", "Tensor", "other"}

\* One entry of MultiBagDataset.bags: the container and its items. The items
\* of a numpy array are numpy arrays and those of a tensor are tensors.
BagEntries ==
    LET itemsOf(ty) == IF ty = "other" THEN {[type |-> ty, bag |-> <<>>]}
                    ELSE {[type |-> ty, bag |-> b] : b \in ItemBags}
        any == UNION {itemsOf(ty) : ty \in ItemTypes}
    IN  {[type |-> "tuple", items |-> it] : it \in SeqUpTo(any, MaxItems)}
        \cup UNION {{[type |-> ty, items |-> it] : it \in SeqUpTo(itemsOf(ty), MaxItems)} :
                        ty \in {"ndarray", "Tensor"}}

\* MultiBagDataset.__getitem__, "Load to tensors": the loop over the items.
\* The second and third tests are on self.bags[index], the container.
RECURSIVE LoadBags(_, _)
LoadBags(entry, i) ==
    IF i > Len(entry.items) THEN [raised |-> "", bags |-> <<>>]
    ELSE IF \/ entry.items[i].type = "str"
            \/ entry.type = "ndarray"
            \/ entry.type = "Tensor"
         THEN LET rest == LoadBags(entry, i + 1)
              IN  [raised |-> rest.raised,
                   bags |-> <<entry.items[i].bag>> \o rest.bags]
         ELSE [raised |-> "ValueError", bags |-> <<>>]

\* MultiBagDataset.__getitem__(index) on the entry self.bags[index]; perms[i]
\* is the value randperm returned for the i-th bag. Size 0 stands for
\* None. The results it can give: (bag, length) pairs, or the error raised.
MultiBagGetItem(entry, n_bags, size, perms) ==
    LET tensors == LoadBags(entry, 1)
    IN  IF Len(entry.items) # n_bags
        THEN [raised |-> "AssertionError", pairs |-> <<>>]
        ELSE IF tensors.raised # ""
        THEN [raised |-> tensors.raised, pairs |-> <<>>]
        ELSE IF size # 0
        THEN [raised |-> "",
              pairs |-> [i \in 1..Len(tensors.bags) |->
                            LET r == ToFixedSizeBag(tensors.bags[i], 2, size, perms[i])
                            IN  <<r.bag, r.length>>]]
        ELSE [raised |-> "",
              pairs |-> [i \in 1..Len(tensors.bags) |->
                            <<tensors.bags[i], Len(tensors.bags[i])>>]]

\* one randperm value per item of the entry
PermsFor(entry) ==
    Choices([i \in 1..Len(entry.items) |-> RandPerms(Len(entry.items[i].bag))])

BagCallStart ==
    /\ \/ \E ndim \in {2, 4}, size \in 1..MaxBagSize :
            \E bag \in (IF ndim = 2 THEN BagSet ELSE SeqUpTo(Maps, MaxRows)) :
                \E perm \in RandPerms(Len(bag)) :
                    call_args = [fn |-> "_to_fixed_size_bag", bag |-> bag, ndim |-> ndim,
                                 bag_size |-> size, perm |-> perm]
       \/ \E entry \in BagEntries, n_bags \in 1..MaxItems, size \in 0..MaxBagSize :
            \E perms \in PermsFor(entry) :
                call_args = [fn |-> "__getitem__", entry |-> entry, n_bags |-> n_bags,
                             bag_size |-> size, perms |-> perms]
    /\ call_result = NotReturned

\* _to_fixed_size_bag(bag, bag_size) is called
ToFixedSizeBagCall ==
    /\ ~call_result.done
    /\ call_args.fn = "_to_fixed_size_bag"
    /\ LET r == ToFixedSizeBag(call_args.bag, call_args.ndim, call_args.bag_size,
                               call_args.perm)
       IN  call_result' = [done |-> TRUE, raised |-> r.raised, bag |-> r.bag,
                           length |-> r.length]
    /\ UNCHANGED call_args
    /\ UNCHANGED notCallVars

\* MultiBagDataset[index] is called
MultiBagGetItemCall ==
    /\ ~call_result.done
    /\ call_args.fn = "__getitem__"
    /\ LET r == MultiBagGetItem(call_args.entry, call_args.n_bags, call_args.bag_size,
                                call_args.perms)
       IN  call_result' = [done |-> TRUE, raised |-> r.raised, pairs |-> r.pairs]
    /\ UNCHANGED call_args
    /\ UNCHANGED notCallVars

NextBagCall == ToFixedSizeBagCall \/ MultiBagGetItemCall


\* ---- tfrecord/reader.py: tfrecord_loader, example_loader, sequence_loader ----

\* the parameters of tfrecord_iterator
IteratorParams ==
    {"data_path", "index", "shard", "clip", "compression_type", "random_start",
     "datum_bytes"}

\* the keyword arguments example_loader and sequence_loader call it with
ExampleLoaderKeywords ==
    {"data_path", "index", "shard", "clip", "compression_type", "datum_bytes"}
SequenceLoaderKeywords ==
    {"data_path", "index_path", "shard", "clip", "compression_type"}

\* calling tfrecord_iterator with these keywords is a TypeError (an unexpected
\* keyword argument)
CallRaises(keywords) == ~(keywords \subseteq IteratorParams)

\* typename_mapping
TypenameMapping(typename) ==
    CASE typename = "byte" -> "bytes_list"
      [] typename = "float" -> "float_list"
      [] typename = "int" -> "int64_list"

\* the features a record can hold: a bytes_list of one string, an int64_list
Features ==
    {[kind |-> "bytes_list", value |-> <<<<1, 2>>>>],
     [kind |-> "int64_list", value |-> <<7, 8>>]}

\* process_feature(feature, typename, ...); typename "" stands for None
ProcessFeature(feature, typename) ==
    IF typename # "" /\ TypenameMapping(typename) # feature.kind
    THEN [raised |-> "TypeError", value |-> <<>>]
    ELSE [raised |-> "",
          value |-> IF feature.kind = "bytes_list" THEN feature.value[1]
                    ELSE feature.value]

\* get_value for example_pb2.Features (lists = FALSE) and for
\* example_pb2.FeatureLists (lists = TRUE: list(map(fn, feature)))
GetValue(feats, key, typename, lists) ==
    IF ~lists THEN ProcessFeature(feats[key], typename)
    ELSE LET each == [i \in 1..Len(feats[key]) |-> ProcessFeature(feats[key][i], typename)]
         IN  IF \E i \in 1..Len(each) : each[i].raised # ""
             THEN [raised |-> "TypeError", value |-> <<>>]
             ELSE [raised |-> "", value |-> [i \in 1..Len(each) |-> each[i].value]]

\* extract_feature_dict(features, description, typename_mapping). A
\* description is a sequence of (key, typename) pairs: a list of keys has
\* typename None throughout, and None and the empty description take every
\* key of the record.
ExtractFeatureDict(feats, description, lists) ==
    LET all_keys == DOMAIN feats
        wanted == IF Len(description) = 0 THEN all_keys
                  ELSE {description[i].key : i \in 1..Len(description)}
        typeOf(key) == IF Len(description) = 0 THEN ""
                       ELSE description[CHOOSE i \in 1..Len(description) :
                                            /\ description[i].key = key
                                            /\ \A m \in (i + 1)..Len(description) :
                                                    description[m].key # key].typename
    IN  IF ~(wanted \subseteq all_keys) THEN [raised |-> "KeyError", dict |-> <<>>]
        ELSE IF \E key \in wanted : GetValue(feats, key, typeOf(key), lists).raised # ""
        THEN [raised |-> "TypeError", dict |-> <<>>]
        ELSE [raised |-> "",
              dict |-> [key \in wanted |-> GetValue(feats, key, typeOf(key), lists).value]]

\* example_loader: for each record the iterator gives, the flat dictionary;
\* an exception ends the generator after the items it has yielded
RECURSIVE ExampleItems(_, _)
ExampleItems(records, description) ==
    IF records = <<>> THEN [raised |-> "", items |-> <<>>]
    ELSE LET d == ExtractFeatureDict(Head(records).features, description, FALSE)
         IN  IF d.raised # "" THEN [raised |-> d.raised, items |-> <<>>]
             ELSE LET rest == ExampleItems(Tail(records), description)
                  IN  [raised |-> rest.raised, items |-> <<d.dict>> \o rest.items]

\* sequence_loader's loop: for each record the pair (context, features)
RECURSIVE SequenceItems(_, _, _)
SequenceItems(records, context_description, features_description) ==
    IF records = <<>> THEN [raised |-> "", items |-> <<>>]
    ELSE LET c == ExtractFeatureDict(Head(records).context, context_description, FALSE)
             f == ExtractFeatureDict(Head(records).feature_lists, features_description, TRUE)
         IN  IF c.raised # "" THEN [raised |-> c.raised, items |-> <<>>]
             ELSE IF f.raised # "" THEN [raised |-> f.raised, items |-> <<>>]
             ELSE LET rest == SequenceItems(Tail(records), context_description,
                                            features_description)
                  IN  [raised |-> rest.raised,
                       items |-> <<<<c.dict, f.dict>>>> \o rest.items]

\* example_loader(...) iterated to its end
example_loader(records, description) ==
    IF CallRaises(ExampleLoaderKeywords) THEN [raised |-> "TypeError", items |-> <<>>]
    ELSE ExampleItems(records, description)

\* sequence_loader(...) iterated to its end
sequence_loader(records, context_description, features_description) ==
    IF CallRaises(SequenceLoaderKeywords) THEN [raised |-> "TypeError", items |-> <<>>]
    ELSE SequenceItems(records, context_description, features_description)

\* tfrecord_loader(...) iterated to its end; sequence_description is
\* [given |-> FALSE] for None
tfrecord_loader(records, description, sequence_description) ==
    IF sequence_description.given
    THEN sequence_loader(records, description, sequence_description.desc)
    ELSE example_loader(records, description)

\* the parsed records of a file of Example messages, and of SequenceExample
\* messages
ExampleRecords ==
    {[features |-> ("a" :> x)] : x \in Features}
    \cup {[features |-> ("a" :> x) @@ ("b" :> y)] : x, y \in Features}
SequenceRecords ==
    {[context |-> ("a" :> x), feature_lists |-> ("s" :> l)] :
        x \in Features, l \in {<<y>> : y \in Features} \cup {<<y, y>> : y \in Features}}

\* the descriptions drawn for a dictionary with the given key
Descriptions(key) ==
    {<<>>, <<[key |-> key, typename |-> ""]>>, <<[key |-> key, typename |-> "byte"]>>,
     <<[key |-> key, typename |-> "int"]>>, <<[key |-> "b", typename |-> ""]>>}

LoaderStart ==
    /\ \/ \E records \in SeqUpTo(ExampleRecords, MaxRecords), d \in Descriptions("a") :
            call_args = [records |-> records, description |-> d,
                         sequence_description |-> [given |-> FALSE, desc |-> <<>>]]
       \/ \E records \in SeqUpTo(SequenceRecords, MaxRecords) :
            \E d \in Descriptions("a"), sd \in Descriptions("s") :
                call_args = [records |-> records, description |-> d,
                             sequence_description |-> [given |-> TRUE, desc |-> sd]]
    /\ call_result = NotReturned

\* tfrecord_loader(...) is called and iterated to its end
TfrecordLoaderCall ==
    /\ ~call_result.done
    /\ LET r == tfrecord_loader(call_args.records, call_args.description,
                                call_args.sequence_description)
       IN  call_result' = [done |-> TRUE, raised |-> r.raised, items |-> r.items]
    /\ UNCHANGED call_args
    /\ UNCHANGED notCallVars

NextLoader == TfrecordLoaderCall


\* ---- model/features.py: _FeatureGenerator.build_dataset ----

MaxWorkers == 8     \* the largest num_workers a caller configures

\* _FeatureGenerator.build_dataset(): the dataloader call it makes.
\* num_workers is [given |-> FALSE] for None. n_workers is computed and
\* logged; dataset.torch is called with num_workers=0.
BuildDataloader(backend, tfrecords_have_loc, num_workers) ==
    IF backend = "tensorflow"
    THEN [raised |-> FALSE, loader |-> "tensorflow",
          deterministic |-> ~tfrecords_have_loc, num_workers |-> 0, logged |-> 0]
    ELSE IF backend = "torch"
    THEN LET n_workers == IF ~num_workers.given
                          THEN (IF tfrecords_have_loc THEN 4 ELSE 1)
                          ELSE num_workers.value
         IN  [raised |-> FALSE, loader |-> "torch", deterministic |-> FALSE,
              num_workers |-> 0, logged |-> n_workers]
    ELSE [raised |-> TRUE, loader |-> "", deterministic |-> FALSE,
          num_workers |-> 0, logged |-> 0]

DataloaderStart ==
    /\ \E backend \in {"tensorflow", "torch", "other"}, loc \in BOOLEAN :
        \E nw \in {[given |-> FALSE, value |-> 0]}
                    \cup {[given |-> TRUE, value |-> n] : n \in 0..MaxWorkers} :
            call_args = [backend |-> backend, tfrecords_have_loc |-> loc, num_workers |-> nw]
    /\ call_result = NotReturned

\* build_dataset() is called
BuildDataloaderCall ==
    /\ ~call_result.done
    /\ LET r == BuildDataloader(call_args.backend, call_args.tfrecords_have_loc,
                                call_args.num_workers)
       IN  call_result' = [done |-> TRUE, raised |-> r.raised, loader |-> r.loader,
                           deterministic |-> r.deterministic,
                           num_workers |-> r.num_workers, logged |-> r.logged]
    /\ UNCHANGED call_args
    /\ UNCHANGED notCallVars

NextDataloader == BuildDataloaderCall

\* ------------------------------------------------------------------------
\* Specifications
\* ------------------------------------------------------------------------

BagInit == CallIdle /\ BagStart /\ ReaderIdle /\ GenIdle /\ WidgetIdle /\ DFIdle
SpecBag == BagInit /\ [][NextBag]_vars

ReaderInit == CallIdle /\ ReaderStart /\ BagIdle /\ GenIdle /\ WidgetIdle /\ DFIdle
SpecReader == ReaderInit /\ [][NextReader]_vars

GenInit == CallIdle /\ GenStart /\ BagIdle /\ ReaderIdle /\ WidgetIdle /\ DFIdle
SpecGen == GenInit /\ [][NextGen]_vars

WidgetInit == CallIdle /\ WidgetStart /\ BagIdle /\ ReaderIdle /\ GenIdle /\ DFIdle
SpecWidget == WidgetInit /\ [][NextWidget]_vars

DFInit == CallIdle /\ DFStart /\ BagIdle /\ ReaderIdle /\ GenIdle /\ WidgetIdle
SpecFeatures == DFInit /\ [][NextDF]_vars

GenerateInit == GenerateStart /\ OthersIdle
SpecGenerate == GenerateInit /\ [][NextGenerate]_vars

SearchInit == SearchStart /\ OthersIdle
SpecSearch == SearchInit /\ [][NextSearch]_vars

BatchInit == BatchStart /\ OthersIdle
SpecBatch == BatchInit /\ [][NextBatch]_vars

HeatmapInit == HeatmapStart /\ OthersIdle
SpecHeatmap == HeatmapInit /\ [][NextHeatmap]_vars

VotesInit == VotesStart /\ OthersIdle
SpecVotes == VotesInit /\ [][NextVotes]_vars

DataloaderInit == DataloaderStart /\ OthersIdle
SpecDataloader == DataloaderInit /\ [][NextDataloader]_vars

LoaderInit == LoaderStart /\ OthersIdle
SpecLoader == LoaderInit /\ [][NextLoader]_vars

BagCallInit == BagCallStart /\ OthersIdle
SpecBagCall == BagCallInit /\ [][NextBagCall]_vars

\* The UI keeps rendering frames, a blocked join returns once its thread has
\* ended, and a started thread runs to its end.
SpecWidgetFair ==
    /\ SpecWidget
    /\ WF_vars(Frame) /\ WF_vars(CloseJoined) /\ WF_vars(LoadJoined) /\ WF_vars(LoadBody)
    /\ WF_vars(ThreadSetFlags) /\ WF_vars(ThreadFinish)

\* ------------------------------------------------------------------------
\* Claims
\* ------------------------------------------------------------------------

\* C1: every fixed-size bag has exactly bag_size rows and effective length
\* min(bag_size, N); when N < bag_size its first N rows are a rearrangement of
\* the loaded bag's rows and the remaining rows are zero vectors; when
\* N >= bag_size its rows are the loaded bag's rows at bag_size distinct indices.
C1_FixedSizeBag ==
    item # NoItem =>
        LET N == Len(item.feats)
            S == bag_size
        IN  /\ Len(item.bag) = S
            /\ item.length = Min(S, N)
            /\ N < S =>
                  /\ \A x \in Rows :
                        Count(SubSeq(item.bag, 1, N), x) = Count(item.feats, x)
                  /\ \A i \in (N + 1)..S : item.bag[i] = ZeroRow
            /\ N >= S =>
                  /\ Len(item.bag_idxs) = S
                  /\ \A i, j \in 1..S : item.bag_idxs[i] = item.bag_idxs[j] => i = j
                  /\ \A i \in 1..S :
                        /\ item.bag_idxs[i] \in 0..(N - 1)
                        /\ item.bag[i] = item.feats[item.bag_idxs[i] + 1]

\* A padded bag whose rows were rearranged by the sampling
C1_Witness ==
    /\ item # NoItem
    /\ Len(item.feats) >= 2
    /\ Len(item.feats) < bag_size
    /\ item.bag[1] # item.feats[1]

\* C2: a built dataset has as many items as there are bags and targets; a
\* call with different numbers of bags and targets raises, and nothing has
\* been loaded or accessed when it does.
C2_BuildDataset ==
    /\ ds_state = "built" => ds_len = bags_n /\ ds_len = Len(targets.rows)
    /\ (ds_state # "unbuilt" /\ bags_n = Len(targets.rows)) =>
            ds_state = "built" /\ ds_len = bags_n
    /\ (ds_state # "unbuilt" /\ bags_n # Len(targets.rows)) =>
            ds_state = "raised" /\ ~loaded /\ item = NoItem

\* A mismatched call (under survival_discrete) that raised
C2_Witness ==
    /\ ds_state = "raised"
    /\ survival_discrete
    /\ bags_n > Len(targets.rows)
    /\ Len(targets.rows) > 0

\* C3: reading an uncompressed file of N well-formed records with no index
\* never fails; the k-th view yielded holds the k-th record's payload (the
\* read buffer being at least as long as every record read so far), and the
\* finished iterator has yielded exactly N views.
C3_RoundTrip ==
    mode = "plain" =>
        /\ rd_pc # "raised"
        /\ Len(yielded) <= Len(rec_lens)
        /\ \A k \in 1..Len(yielded) :
              /\ yielded[k].data = Payload(k, rec_lens[k])
              /\ yielded[k].off = RecordOffset(rec_lens, k)
              /\ Len(datum_bytes) >= rec_lens[k]
        /\ rd_pc = "done" => Len(yielded) = Len(rec_lens)

\* A finished read of several records, one of them longer than the buffer
\* the iterator started with
C3_Witness ==
    /\ mode = "plain"
    /\ rd_pc = "done"
    /\ Len(yielded) >= 2
    /\ \E k \in 1..Len(yielded) : Len(yielded[k].data) > buf0

\* the records (offset and payload) a finished call yielded
RecordsOf(r) == Range(r.yielded)

\* is sequence a a contiguous run of sequence b
IsRunOf(a, b) ==
    \E i \in 0..(Len(b) - Len(a)) : a = SubSeq(b, i + 1, i + Len(a))

\* the shard calls 1..shard_count and the unsharded call shard_count + 1 have
\* all finished: no shard call raised, the shards' records are pairwise
\* disjoint, their union is what the unsharded call read, and each shard read
\* a contiguous run of it
ShardsCoverFile ==
    LET full == runs[shard_count + 1]
    IN  /\ \A k \in 1..(shard_count + 1) : ~runs[k].raised
        /\ \A i, j \in 1..shard_count :
              i # j => RecordsOf(runs[i]) \cap RecordsOf(runs[j]) = {}
        /\ UNION {RecordsOf(runs[k]) : k \in 1..shard_count} = RecordsOf(full)
        /\ \A k \in 1..shard_count : IsRunOf(runs[k].yielded, full.yielded)

\* C4 as stated: with M index entries, C <= M shards and any clip between 1
\* and M (or none), the shards cover the unsharded read exactly.
C4_Original ==
    (mode = "shard" /\ rd_pc = "end" /\ Len(rec_lens) >= shard_count)
        => ShardsCoverFile

\* C4, amended: with M index entries, C <= M shards and a clip that is absent
\* or between C and M, the records read for shards 0..C-1 are pairwise
\* disjoint, their union is the record set read without sharding under the
\* same clip, and each shard reads a contiguous run of records in file order.
C4_ShardCoverage ==
    (/\ mode = "shard" /\ rd_pc = "end"
     /\ Len(rec_lens) >= shard_count
     /\ (clip = 0 \/ clip >= shard_count))
        => ShardsCoverFile

\* A finished sweep over three shards of a clipped index
C4_Witness ==
    /\ mode = "shard" /\ rd_pc = "end"
    /\ shard_count >= 2
    /\ clip >= shard_count /\ clip < Len(rec_lens)
    /\ \A k \in 1..shard_count : Len(runs[k].yielded) >= 1

\* the tiles of slide s among those of batches 1..n, in production order
TilesInOrder(n, s) ==
    SelectSeq([t \in 1..(n * BatchTiles) |-> t], LAMBDA t : SlideOfTile(t) = s)

\* one accumulator after batches 1..n were processed once each, in order
DictInOrder(n, on) ==
    IF on
    THEN [s \in {x \in Slides : TilesInOrder(n, x) # <<>>} |-> TilesInOrder(n, s)]
    ELSE EmptyDict

AccumulatedInOrder(n, flags) ==
    [activations |-> DictInOrder(n, flags.layers),
     predictions |-> DictInOrder(n, flags.preds),
     uncertainty |-> DictInOrder(n, flags.uq),
     locations   |-> DictInOrder(n, flags.loc)]

\* C5 as stated: when generate returns, in either mode, every batch the
\* dataloader produced has been passed to process_batch exactly once and in
\* order, so the accumulators are those of in-order processing; the sentinel
\* is the last item ever enqueued, and in threaded mode generate returns only
\* after the worker has consumed it.
C5_Original ==
    /\ main_pc = "returned" =>
          /\ processed = [i \in 1..produced |-> i]
          /\ acc = AccumulatedInOrder(produced, fg_flags)
          /\ threading_mode => (worker_pc = "exited" /\ q = <<>>)
    /\ \A i \in 1..Len(q) :
          q[i] = 0 => (i = Len(q) /\ main_pc \in {"join", "returned"})

\* C6: the queue never holds more than 100 items; only the main thread
\* enqueues, and only while the queue is not full (it stays in put until
\* then); in threaded mode the accumulators change only in a step of the
\* worker thread taking an item off the queue.
C6_BoundedQueue ==
    /\ [](Len(q) <= QueueMaxSize)
    /\ [][(Len(q') > Len(q)) =>
               (/\ main_pc = "put" /\ Len(q) < QueueMaxSize
                /\ q' = Append(q, pending) /\ worker_pc' = worker_pc)]_vars
    /\ [][(main_pc = "put" /\ main_pc' # "put") => (Len(q) < QueueMaxSize)]_vars
    /\ [][(threading_mode /\ acc' # acc) =>
               (/\ worker_pc = "get" /\ q' = Tail(q)
                /\ main_pc' = main_pc /\ produced' = produced)]_vars

\* The producer blocked in put on a full queue while the worker is waiting
\* to take an item
C6_Witness ==
    /\ threading_mode
    /\ main_pc = "put" /\ pending # 0
    /\ Len(q) = QueueMaxSize
    /\ worker_pc = "get"

\* ------------------------------------------------------------------------
\* MILWidget claims
\* ------------------------------------------------------------------------

NoThreadAlive == \A t \in ThreadIds : ~IsAlive(t)

\* C7 (as stated): whenever close returns, no prediction thread started by
\* the widget is still running and the widget is Unloaded: mil_params,
\* predictions, attention and _thread are all cleared.
C7_Original ==
    last = "close_returned" =>
        /\ NoThreadAlive
        /\ mil_params = "none"
        /\ w_predictions = 0
        /\ w_attention = 0
        /\ w_thread = 0

\* C8 (as stated): every load first closes the loaded model with
\* close_renderer=False, so that when it is about to read the new model's
\* mil_params.json no prediction thread is in flight, predictions, attention
\* and config are cleared and the renderer was left as it was; after a
\* successful load the widget holds the new model's parameters, and _mil_path
\* and the viewer's model path are the new path.
C8_Original ==
    /\ [](ui_pc = "load_read" =>
            /\ NoThreadAlive
            /\ mil_params = "none" /\ extractor_params = "none"
            /\ mil_config = "none"
            /\ w_predictions = 0 /\ w_attention = 0)
    /\ [][(ui_pc' \in {"load_join", "load_read"}) => (renderer' = renderer)]_vars
    /\ [](last = "load_ok" =>
            /\ mil_params = load_path /\ extractor_params = load_path
            /\ mil_config = load_path
            /\ mil_path = load_path /\ viz_model_path = load_path)

\* C9 (as stated): once a prediction thread has ended, and frames keep being
\* rendered, eventually _generating = False, _triggered = False and
\* _thread = None; the widget does not stay in Generating forever.
C9_Original ==
    \A t \in ThreadIds :
        (threads[t] = "finished") ~> (~generating /\ ~triggered /\ w_thread = 0)

\* ------------------------------------------------------------------------
\* DatasetFeatures claims
\* ------------------------------------------------------------------------

\* the per-slide dictionaries of an object
DictsOf(o) == {o.acc.activations, o.acc.predictions, o.acc.uncertainty, o.acc.locations}

\* for every slide, the arrays present have the same rows in the same order
RecordsAligned(o) ==
    \A d1 \in DictsOf(o), d2 \in DictsOf(o) :
        \A s \in DOMAIN d1 \cap DOMAIN d2 : d1[s] = d2[s]

\* C10 (as stated): in every state of a DatasetFeatures object reachable by
\* construction, merge and remove_slide, the arrays present for a slide have
\* the same number of rows and row i of each refers to the same tile.
C10_Original == \A o \in Objects : dfs[o].state = "built" => RecordsAligned(dfs[o])

\* the slides that have an entry in some dictionary of an object
KeysOf(o) == UNION {DOMAIN d : d \in DictsOf(o)}

IsMergeStep ==
    dfs["A"].state = "built" /\ Len(dfs'["A"].tfrecords) > Len(dfs["A"].tfrecords)

DictNames == {"activations", "predictions", "uncertainty", "locations"}

\* the entry of slide k in dictionary n of object o, <<>> when there is none
EntryOf(o, n, k) == IF k \in DOMAIN o.acc[n] THEN <<o.acc[n][k]>> ELSE <<>>

\* C12 (as stated): after A.merge(B), for every slide key present in B each
\* of A's four dictionaries holds B's value for that key, every slide key
\* present only in A keeps its previous values in all four dictionaries, B is
\* unchanged, and A's slide list is exactly the key set of the merged
\* activations.
C12_Original ==
    [][IsMergeStep =>
        /\ \A k \in KeysOf(dfs["B"]), n \in DictNames :
            EntryOf(dfs'["A"], n, k) = EntryOf(dfs["B"], n, k)
        /\ \A k \in KeysOf(dfs["A"]) \ KeysOf(dfs["B"]), n \in DictNames :
            EntryOf(dfs'["A"], n, k) = EntryOf(dfs["A"], n, k)
        /\ dfs'["B"] = dfs["B"]
        /\ Range(dfs'["A"].slides) = DOMAIN dfs'["A"].acc.activations
        /\ Len(dfs'["A"].slides) = Cardinality(DOMAIN dfs'["A"].acc.activations)]_vars

\* a construction in which some slide of the dataset got no activations
HasMissingSlide(o) ==
    o.origin # "none" /\ \E slide \in Range(o.given) : slide \notin o.loaded

\* C13 (as stated): a construction over a dataset in which some expected
\* slide ends up with no activations (absent from the loaded cache, or no
\* tile produced for it by fresh extraction) completes without raising.
C13_Original ==
    \A o \in Objects : HasMissingSlide(dfs[o]) => dfs[o].state # "raised"

\* the locations of the rows of slide s that generate accumulated, in
\* arrival order
AccumulatedLocs(args, s) ==
    LET a == process_batch(EmptyAcc, args.order, args.flags)
    IN  IF s \in DOMAIN a.locations
        THEN [i \in 1..Len(a.locations[s]) |-> args.lm[a.locations[s][i]]]
        ELSE <<>>

IsPermutationOf(x, y) ==
    /\ Len(x) = Len(y)
    /\ \A v \in Range(x) \cup Range(y) : Count(x, v) = Count(y, v)

DuplicateFree(x) == \A i, j \in 1..Len(x) : x[i] = x[j] => i = j

\* the case C14 is about: the record files carry locations and the slide's
\* true locations are a duplicate-free permutation of its rows' locations
SortCase(args, s) ==
    /\ args.flags.loc
    /\ s \in args.d.slides
    /\ DuplicateFree(TrueLocs(args.lm, args.d, s))
    /\ IsPermutationOf(TrueLocs(args.lm, args.d, s), AccumulatedLocs(args, s))

\* C14: when the record files carry locations and a slide's true-location
\* list is a duplicate-free permutation of the locations of its accumulated
\* rows, then after _generate_features row i of the slide's locations is the
\* i-th true location, and the rows of activations, predictions and
\* uncertainty are the rows of the same tiles, whatever the arrival order.
C14_CanonicalSort ==
    (call_result.done /\ ~call_result.raised) =>
        \A s \in DFSlides :
            SortCase(call_args, s) =>
                LET inorder == TFRecordTiles(s, call_args.d.ntiles[s])
                    out == call_result.acc
                IN  /\ [i \in 1..Len(out.locations[s]) |-> call_args.lm[out.locations[s][i]]]
                            = TrueLocs(call_args.lm, call_args.d, s)
                    /\ out.locations[s] = inorder
                    /\ \A n \in {"activations", "predictions", "uncertainty"} :
                            s \in DOMAIN out[n] => out[n][s] = inorder

\* a slide whose rows arrived in another order than its record file's, with
\* predictions kept
C14_Witness ==
    /\ call_result.done /\ ~call_result.raised
    /\ \E s \in DFSlides :
        /\ SortCase(call_args, s)
        /\ AccumulatedLocs(call_args, s) # TrueLocs(call_args.lm, call_args.d, s)
        /\ s \in DOMAIN call_result.acc.predictions

\* the k-th record of the file as the iterator yields it
YieldOf(k) == [off |-> RecordOffset(rec_lens, k), data |-> Payload(k, rec_lens[k])]

\* records k..n of the file followed by records 1..k-1
Rotation(n, k) ==
    [i \in 1..n |-> IF i <= n - k + 1 THEN YieldOf(k + i - 1) ELSE YieldOf(i - (n - k + 1))]

\* C15: with an index, no shard and random_start the iterator yields every
\* record of the (clipped) indexed range exactly once: the records from a
\* chosen indexed record up to the clip boundary (or file end) in file order,
\* then the records from the file start up to, and excluding, the chosen one.
C15_RandomStart ==
    (mode = "random" /\ rd_pc = "end") =>
        LET n == IF clip = 0 THEN Len(rec_lens) ELSE clip
        IN  /\ ~runs[1].raised
            /\ \E k \in 1..n : runs[1].yielded = Rotation(n, k)

\* a finished read of a clipped index that started in the middle
C15_Witness ==
    /\ mode = "random" /\ rd_pc = "end"
    /\ clip >= 2 /\ clip < Len(rec_lens)
    /\ Len(runs[1].yielded) = clip
    /\ runs[1].yielded[1].off > 0

\* the sampled configuration gives the hyperparameter a value
IsActive(n) == call_result.cfg[n] # Inactive

\* in the sampled configuration, child is active exactly when the parent is
\* not 0
ActiveIffNotZero(child, parent) == IsActive(child) <=> call_result.cfg[parent] # 0

\* C16: in a returned space whose hidden_layers contains 0, each of
\* hidden_layer_width, l1_dense and l2_dense that was supplied is inactive in
\* every configuration with hidden_layers = 0 and active in every other one;
\* learning_rate_decay_steps, supplied with learning_rate_decay, is active
\* exactly when learning_rate_decay < 1.
C16_Conditioning ==
    (call_result.done /\ ~call_result.raised /\ call_result.sampled) =>
        LET hps == DOMAIN call_result.cs.hps
        IN  /\ ("hidden_layers" \in hps /\ 0 \in call_result.cs.hps["hidden_layers"].values) =>
                    \A n \in {"hidden_layer_width", "l1_dense", "l2_dense"} \cap hps :
                        /\ n \in DOMAIN call_result.cfg
                        /\ ActiveIffNotZero(n, "hidden_layers")
            /\ {"learning_rate_decay", "learning_rate_decay_steps"} \subseteq hps =>
                    /\ "learning_rate_decay_steps" \in DOMAIN call_result.cfg
                    /\ IsActive("learning_rate_decay_steps")
                            <=> call_result.cfg["learning_rate_decay"] < DecayOne

\* a configuration of the broad preset with no hidden layer and a decay of 1
C16_Witness ==
    /\ call_args.fn = "broad_search_space"
    /\ call_result.done /\ ~call_result.raised /\ call_result.sampled
    /\ {"hidden_layer_width", "l1_dense", "l2_dense", "learning_rate_decay_steps"}
            \subseteq DOMAIN call_result.cfg
    /\ call_result.cfg["hidden_layers"] = 0
    /\ ~IsActive("hidden_layer_width") /\ ~IsActive("l1_dense") /\ ~IsActive("l2_dense")
    /\ call_result.cfg["learning_rate_decay"] = DecayOne
    /\ ~IsActive("learning_rate_decay_steps")

\* the cell of column arg in row k of the file
CellOf(k, arg) == call_args.file.rows[k][Index(call_args.file.header, arg)]

\* the columns get_hp_from_row coerces before column arg, in its order
ArgsBefore(arg) ==
    LET header == call_args.file.header
        i == Index(header, arg)
    IN  {header[j] : j \in 1..(i - 1)} \ {"model_name"}

\* the cells that read as true and as false, whatever their case
TrueCells == {"true", "TRUE", "yes", "Yes", "y", "t"}
FalseCells == {"false", "False", "no", "n", "N", "f"}

\* a cell that the coercion of its column accepts
CellParses(k, arg) ==
    CASE arg = "early_stop" -> CellOf(k, arg) \in TrueCells \cup FalseCells
      [] arg = "dropout" -> CellOf(k, arg) \in FloatCells
      [] arg = "epochs" -> CellOf(k, arg) \in EpochCells
      [] OTHER -> TRUE

\* C17: get_hp_from_row sets a boolean-typed field to true when the cell,
\* compared case-insensitively, is one of true/yes/y/t, to false when it is
\* one of false/no/n/f, and for every other cell raises a parse error naming
\* the value and the field; the error comes out of get_hp_from_batch_file.
C17_BoolCoercion ==
    call_result.done =>
        \A k \in 1..Len(call_result.calls) :
            LET r == call_result.calls[k]
                cell == CellOf(k, "early_stop")
                reached == \A a \in ArgsBefore("early_stop") : CellParses(k, a)
                others == \A a \in Range(call_args.file.header) \ {"model_name", "early_stop"} :
                                CellParses(k, a)
            IN  /\ ("early_stop" \in Range(call_args.file.header)
                        /\ "model_name" \in Range(call_args.file.header)) =>
                    /\ (cell \in TrueCells /\ others) =>
                            ~r.raised /\ r.hp.early_stop = TRUE
                    /\ (cell \in FalseCells /\ others) =>
                            ~r.raised /\ r.hp.early_stop = FALSE
                    /\ (cell \notin TrueCells \cup FalseCells /\ reached) =>
                            r.raised /\ r.error = ParseError(cell, "early_stop")
                /\ r.raised => call_result.raised /\ call_result.error = r.error

\* a file whose first row says "Yes" and whose second row says "maybe",
\* read for model m1 only
C17_Witness ==
    /\ call_result.done /\ Len(call_result.calls) = 2
    /\ call_args.models.given /\ call_args.models.names = <<"m1">>
    /\ "early_stop" \in Range(call_args.file.header)
    /\ CellOf(1, "early_stop") = "Yes" /\ call_result.calls[1].hp.early_stop = TRUE
    /\ CellOf(2, "early_stop") = "maybe"
    /\ call_result.calls[2].model_name = "m2"
    /\ call_result.raised /\ call_result.error = ParseError("maybe", "early_stop")

\* the rows of the file that carry model name m
RowsNamed(m) ==
    LET i == Index(call_args.file.header, "model_name")
    IN  {k \in 1..Len(call_args.file.rows) : call_args.file.rows[k][i] = m}

\* every cell of the file is one its column's coercion accepts
FileParses ==
    \A k \in 1..Len(call_args.file.rows) :
        \A a \in Range(call_args.file.header) \ {"model_name"} : CellParses(k, a)

\* C18 (as stated): given a list of requested names, the call raises if a
\* requested name is not in the file, if one is in more than one row, or if
\* the model_name column is missing; for every list of pairwise-distinct
\* names, in any order, that each appear exactly once it raises nothing and
\* returns a mapping whose keys are exactly the requested names.
C18_Original ==
    (call_result.done /\ call_args.models.given /\ call_args.models.names # <<>>) =>
        LET names == call_args.models.names
            column == "model_name" \in Range(call_args.file.header)
        IN  /\ ~column => call_result.raised
            /\ (column /\ \E m \in Range(names) : Cardinality(RowsNamed(m)) # 1) =>
                    call_result.raised
            /\ (/\ column /\ FileParses
                /\ DuplicateFree(names)
                /\ \A m \in Range(names) : Cardinality(RowsNamed(m)) = 1) =>
                    /\ ~call_result.raised
                    /\ DOMAIN call_result.value = Range(names)

\* the output cell of the k-th prediction
CellOfPrediction(k) ==
    LET p == call_args.unmasked_indices[k]
        w == call_args.original_shape[2]
    IN  call_result.heatmap[(p \div w) + 1][(p % w) + 1]

\* C19: for every input with at least two distinct values, every output cell
\* at a valid position lies in [0,1], one of them is 0 and one is 1, the
\* order of the input values is kept, and every masked cell is nan.
C19_Normalization ==
    (call_result.done /\ Cardinality(Range(call_args.predictions)) >= 2) =>
        LET n == Len(call_args.predictions)
            w == call_args.original_shape[2]
        IN  /\ \A k \in 1..n :
                    /\ ~CellOfPrediction(k).nan
                    /\ 0 <= CellOfPrediction(k).num
                    /\ CellOfPrediction(k).num <= CellOfPrediction(k).den
            /\ \E k \in 1..n : CellOfPrediction(k).num = 0
            /\ \E k \in 1..n : CellOfPrediction(k).num = CellOfPrediction(k).den
            /\ \A i, j \in 1..n :
                    call_args.predictions[i] < call_args.predictions[j] =>
                        CellOfPrediction(i).num * CellOfPrediction(j).den
                            < CellOfPrediction(j).num * CellOfPrediction(i).den
            /\ \A p \in (0..(call_args.total_elements - 1)) \ Range(call_args.unmasked_indices) :
                    call_result.heatmap[(p \div w) + 1][(p % w) + 1] = NaN

\* a grid of two rows with one masked cell and predictions 1, 2, 1: the
\* smallest prediction is not 0
C19_Witness ==
    /\ call_result.done
    /\ call_args.original_shape[1] = 2 /\ call_args.original_shape[2] = 2
    /\ call_args.unmasked_indices = <<0, 2, 3>>
    /\ call_args.predictions = <<1, 2, 1>>
    /\ call_result.heatmap = <<<<Number(0), NaN>>, <<Number(1), Number(0)>>>>

\* the class, among those of the filter, that a tile scores highest (the
\* first of them in the filter's order when several score the same)
VotedClass(tile, classes) == classes[ArgMax(FilterColumns(tile, classes)) + 1]

\* the number of the slide's tiles that vote for class c
VotesFor(slide, c) ==
    LET tiles == call_args.predictions[slide]
        classes == EffectiveFilter(call_args.prediction_filter)
    IN  Cardinality({t \in 1..Len(tiles) : VotedClass(tiles[t], classes) = c})

\* C20 (as stated): softmax_percent returns, for every slide and class c, the
\* fraction of the slide's tiles whose largest prediction among the filtered
\* classes (all classes without a filter) is class c; softmax_predict returns
\* a class with the largest such fraction.
C20_Original ==
    (call_result.done /\ Range(call_args.prediction_filter) \subseteq Classes) =>
        /\ ~call_result.raised
        /\ DOMAIN call_result.value = DOMAIN call_args.predictions
        /\ \A slide \in DOMAIN call_args.predictions :
            LET n == Len(call_args.predictions[slide])
            IN  IF call_args.fn = "softmax_percent"
                THEN \A c \in Classes :
                        call_result.value[slide][c + 1]
                            = Divide(Number(VotesFor(slide, c)), Number(n))
                ELSE /\ call_result.value[slide] \in Classes
                     /\ \A c \in Classes :
                            VotesFor(slide, c) <= VotesFor(slide, call_result.value[slide])

\* the main thread is in q.put on a full queue and the worker thread, which
\* alone takes items off it, has ended
BlockedForever ==
    /\ main_pc = "put"
    /\ Len(q) = QueueMaxSize
    /\ worker_pc \in {"died", "exited"}

\* C21 (as stated): in threaded mode, also when process_batch raises inside
\* the worker thread, generate terminates: the producer is never left
\* blocked on a full queue that nobody empties, and generate never returns
\* accumulators that miss a batch the dataloader produced.
C21_Original ==
    threading_mode =>
        /\ ~BlockedForever
        /\ main_pc = "returned" =>
                \A b \in 1..produced :
                    \A d \in 1..BatchTiles :
                        LET t == TilesOfBatch(b)[d]
                        IN  /\ SlideOfTile(t) \in DOMAIN acc.activations
                            /\ t \in Range(acc.activations[SlideOfTile(t)])


\* the whole-slide prediction threads that are alive
AliveThreads == {t \in ThreadIds : IsAlive(t)}

\* C22 (as stated): in every interleaving of frames, predict_slide calls and
\* thread steps at most one whole-slide prediction thread of the widget is
\* alive, and predict_slide never starts a thread (overwriting _thread) while
\* an earlier one is still running.
C22_Original ==
    /\ [](Cardinality(AliveThreads) <= 1)
    /\ [][(w_thread' # w_thread /\ w_thread' # 0) => AliveThreads = {}]_vars

\* C23 (as stated): when load fails at any step after closing the previous
\* model, then after load returns False (or re-raises) model_loaded is False,
\* _mil_path is None and the viewer's model path is not the failed path.
C23_Original ==
    last = "load_failed" =>
        /\ mil_params = "none"
        /\ mil_path = "none"
        /\ viz_model_path # load_path


\* the looked-up true-order indices of slide s in the call with inputs args
IdxOf(args, s) ==
    SortIdx(args.lm, process_batch(EmptyAcc, args.order, args.flags), args.d, s)

\* idx is a permutation of 0..n-1, n its length
IsPermutation(idx) == Range(idx) = 0..(Len(idx) - 1)

\* C24 (as stated): during the re-sort, whenever the looked-up true-order
\* indices of a slide are not a permutation of 0..n-1 (n the slide's
\* accumulated row count), the contiguity assertion fails and extraction
\* aborts instead of reordering the rows.
C24_Original ==
    (call_result.done /\ call_args.flags.loc) =>
        \A s \in call_args.d.slides :
            (call_args.d.ntiles[s] > 0 /\ ~IsPermutation(IdxOf(call_args, s)))
                => call_result.raised


\* C25 (as stated): _to_fixed_size_bag on a bag with more than 2 dimensions
\* (shape [N, F, H, W]) returns, without raising, a 2-D bag of bag_size rows
\* whose non-padding rows are the sampled instances averaged over the two
\* trailing axes and whose other rows are zero, with length min(bag_size, N).
C25_Original ==
    (call_result.done /\ call_args.fn = "_to_fixed_size_bag" /\ call_args.ndim > 2) =>
        LET means == MeanOverMaps(call_args.bag)
            k == Min(call_args.bag_size, Len(call_args.bag))
        IN  /\ ~call_result.raised
            /\ Len(call_result.bag) = call_args.bag_size
            /\ \A i \in 1..k : call_result.bag[i] = means[call_args.perm[i] + 1]
            /\ \A i \in (k + 1)..call_args.bag_size : call_result.bag[i] = ZeroRow
            /\ call_result.length = k

\* every item of the entry is a file path, a numeric array or a tensor
ItemsLoadable(entry) ==
    \A i \in 1..Len(entry.items) : entry.items[i].type \in {"str", "ndarray", "Tensor"}

\* C26 (as stated): MultiBagDataset[index] on a bag tuple of exactly n_bags
\* items returns exactly n_bags (bag, length) pairs whenever every item is a
\* file path, a numeric array or a tensor; it raises the 'Invalid bag type'
\* error only when some item is of another type; a tuple whose length
\* differs from n_bags fails the assertion.
C26_Original ==
    (call_result.done /\ call_args.fn = "__getitem__") =>
        /\ (Len(call_args.entry.items) = call_args.n_bags /\ ItemsLoadable(call_args.entry))
                => (call_result.raised = "" /\ Len(call_result.pairs) = call_args.n_bags)
        /\ call_result.raised = "ValueError" => ~ItemsLoadable(call_args.entry)
        /\ Len(call_args.entry.items) # call_args.n_bags
                => call_result.raised = "AssertionError"


\* C28 (as stated): with compression_type='gzip' and no index the iterator
\* yields every record of the file in order, exactly as for the same records
\* stored uncompressed; the end bound of the read loop does not stop the
\* iteration before the last record when the compressed file is smaller than
\* its content.
C28_Original ==
    mode = "gzip" =>
        /\ rd_pc # "raised"
        /\ Len(yielded) <= Len(rec_lens)
        /\ \A k \in 1..Len(yielded) :
              /\ yielded[k].data = Payload(k, rec_lens[k])
              /\ yielded[k].off = RecordOffset(rec_lens, k)
        /\ rd_pc = "done" => Len(yielded) = Len(rec_lens)


\* the description names only keys the dictionary holds, with their types
Describes(description, feats, lists) == ExtractFeatureDict(feats, description, lists).raised = ""

\* every record of the file can be decoded as the call describes it
WellFormed(args) ==
    \A k \in 1..Len(args.records) :
        IF args.sequence_description.given
        THEN /\ Describes(args.description, args.records[k].context, FALSE)
             /\ Describes(args.sequence_description.desc, args.records[k].feature_lists, TRUE)
        ELSE Describes(args.description, args.records[k].features, FALSE)

\* C27 (as stated): tfrecord_loader with a sequence description yields, for
\* every record, the pair (context dictionary, feature_lists dictionary)
\* sequence_loader decodes; without one it yields, for every record, the
\* flat dictionary of example_loader. Over a well-formed file the iteration
\* completes without error and yields one item per record.
C27_Original ==
    (call_result.done /\ WellFormed(call_args)) =>
        /\ call_result.raised = ""
        /\ Len(call_result.items) = Len(call_args.records)
        /\ \A k \in 1..Len(call_result.items) :
              call_result.items[k] =
                IF call_args.sequence_description.given
                THEN <<ExtractFeatureDict(call_args.records[k].context,
                                          call_args.description, FALSE).dict,
                       ExtractFeatureDict(call_args.records[k].feature_lists,
                                          call_args.sequence_description.desc, TRUE).dict>>
                ELSE ExtractFeatureDict(call_args.records[k].features,
                                        call_args.description, FALSE).dict


\* C29 (as stated): on the eager (PyTorch) backend build_dataset builds the
\* dataloader with 4 workers if the record files carry tile locations and 1
\* worker otherwise when num_workers was not configured, and with the
\* configured num_workers when it was.
C29_Original ==
    (call_result.done /\ call_args.backend = "torch") =>
        /\ ~call_result.raised
        /\ call_result.loader = "torch"
        /\ call_result.num_workers =
                IF call_args.num_workers.given THEN call_args.num_workers.value
                ELSE IF call_args.tfrecords_have_loc THEN 4 ELSE 1


\* the arguments create_search_space was called with, defaults filled in
SuppliedArgs == BindArgs(CreateDefaults, call_args.kwargs)

\* C30 (as stated): the space create_search_space returns holds a parameter
\* for every argument supplied with a value other than None and for no other
\* name; in particular, when early_stop is true it holds a parameter named
\* early_stop.
C30_Original ==
    (call_result.done /\ ~call_result.raised /\ call_args.fn = "create_search_space") =>
        DOMAIN call_result.cs.hps =
            {n \in SearchArgs : SuppliedArgs[n] # None}
                \cup (IF call_args.early_stop THEN {"early_stop"} ELSE {})

==============================================================================
